---- MODULE Spec2Model ----
(***************************************************************************)
(* Model of network_diagnostics/diagnostics.py: the Diagnostics watchdog,  *)
(* its control thread, the interface monitor, the three ICMP probe slots,  *)
(* the traceroute and speed-test runners and the escalation engine.        *)
(*                                                                         *)
(* Threads are modelled as processes with a program counter.  A step of a *)
(* thread runs from one blocking or GIL-releasing operation (sleep, join,  *)
(* network or subprocess I/O, a log call between two accesses to a shared  *)
(* field) to the next; the first statement of a freshly started thread is  *)
(* a step of that thread, not of its creator.  Python None is 0 for        *)
(* references, "None" for result fields and NoInterface for the interface. *)
(* The OS event-log listener is independent of the state machine and has   *)
(* no part in it.                                                          *)
(***************************************************************************)
EXTENDS Integers, Sequences, FiniteSets, TLC

\* ---- bounds of the model ------------------------------------------------
MaxSessions == 2
MaxInst == 2
MaxRunners == 2
MaxInterruptions == 2
MaxThreshold == 2
MaxSeqLoss == 2
MaxUpdates == 4
MaxDistance == 6
MaxStarts == 3
MaxClock == 2

\* ---- program constants --------------------------------------------------
DefaultMaxSeqLoss == 1

Slots == {"gw", "ext", "cs2"}
ExtServers == {"", "e1", "e2"}
Cs2Servers == {"None", "c1"}
InitialExternalServer == "e1"

NoInterface == [id |-> 0, name |-> 0, mac |-> 0, ipv4 |-> 0, gw |-> ""]
IfA == [id |-> 1, name |-> 1, mac |-> 1, ipv4 |-> 1, gw |-> "g1"]
IfB == [id |-> 1, name |-> 1, mac |-> 1, ipv4 |-> 1, gw |-> "g2"]
Interfaces == {IfA, IfB}
LinkStats == {"up", "down"}

StartOutcomes == {"ok", "exists_error", "firewall_error", "mkdir_oserror", "logging_error"}

VARIABLES
    \* the calling (front-end) thread
    callerpc, caller_join,
    \* Diagnostics session state
    running, watchdog_thread, wpc, dirs, firewall,
    stop_diagnostics_logging, logging_active, cb_stops,
    \* connectivity
    active_interruption, total_interruptions, internet_connectivity,
    icmp_external_test_seq_loss, icmp_max_seq_loss,
    cb_starts, cb_ends, cb_total,
    \* interface monitor
    interface, interface_stats, interface_changed,
    interface_update_running, interface_update_thread, monitors,
    \* targets
    icmp_external_test_server, icmp_external_test_server_changed,
    icmp_cs2_test_server, icmp_cs2_test_server_changed,
    \* ICMP probe slots
    icmp_test, probes,
    \* traceroute and speed test
    traceroute, traceroute_thread, tr_threads,
    speed_test, speed_test_thread, sp_threads,
    \* locals of the control thread
    long_speed_test, traceroute_succeeded,
    short_speed_test_succeeded, long_speed_test_succeeded,
    w_gateway_address, w_cs2_server, w_join,
    \* an RTT accumulator of a probe and the update calls made on it
    rtt_data, rtt_calls,
    \* what a probe's update callback was handed, call by call
    cb_seen,
    \* a traceroute's hop list and the lines format() made of it
    hop_list, format_lines,
    \* the diagnostics directory by name, the names start() allocated in the
    \* order of the starts, the wall clock (UTC instant and UTC offset)
    diagnostics_dir, started, clock, utc_offset,
    \* the session directories the front end exported
    exported

callerVars == <<callerpc, caller_join>>
sessVars == <<running, watchdog_thread, wpc, dirs, firewall,
              stop_diagnostics_logging, logging_active, cb_stops>>
connVars == <<active_interruption, total_interruptions, internet_connectivity,
              icmp_external_test_seq_loss, icmp_max_seq_loss,
              cb_starts, cb_ends, cb_total>>
ifVars == <<interface, interface_stats, interface_changed,
            interface_update_running, interface_update_thread, monitors>>
srvVars == <<icmp_external_test_server, icmp_external_test_server_changed,
             icmp_cs2_test_server, icmp_cs2_test_server_changed>>
probeVars == <<icmp_test, probes>>
trVars == <<traceroute, traceroute_thread, tr_threads>>
spVars == <<speed_test, speed_test_thread, sp_threads>>
escVars == <<long_speed_test, traceroute_succeeded,
             short_speed_test_succeeded, long_speed_test_succeeded>>
wLocals == <<w_gateway_address, w_cs2_server, w_join>>

rttVars == <<rtt_data, rtt_calls>>
mainVars == <<callerVars, sessVars, connVars, ifVars, srvVars, probeVars,
              trVars, spVars, escVars, wLocals>>
auxVars == <<cb_seen, hop_list, format_lines, diagnostics_dir, started, clock,
             utc_offset, exported>>

vars == <<callerVars, sessVars, connVars, ifVars, srvVars, probeVars,
          trVars, spVars, escVars, wLocals, rttVars, auxVars>>

Sessions == 1..MaxSessions
Insts == 1..MaxInst
Runners == 1..MaxRunners

Min(S) == CHOOSE x \in S : \A y \in S : x <= y

\* ---- thread liveness ----------------------------------------------------

\* a liveness test that never reports a thread alive
RunnerNeverAlive(T, i) == FALSE

\* threading.Thread.is_alive() of control thread t
WatchdogAlive(t) == wpc[t] \notin {"none", "dead"}

\* Diagnostics.running (property)
RunningProperty == watchdog_thread # 0 /\ WatchdogAlive(watchdog_thread)

NoProbe == [pc |-> "none", running |-> FALSE, host |-> "", arg |-> "None"]
NoTraceroute == [host |-> "", fast |-> FALSE, hops |-> "None"]
NoSpeedTest == [tests |-> "", results |-> "None"]
NoMonitor == [pc |-> "none", local |-> NoInterface]

ProbeAlive(P, s, i) == P[s][i].pc \notin {"none", "dead"}
RunnerAlive(T, i) == T[i] = "run"
MonitorAlive(M, i) == M[i].pc = "loop"

\* A finished thread object nobody refers to any more is dropped.
NoJoin == <<"", 0>>
CollectProbes(P, T, keep) ==
    [s \in Slots |-> [i \in Insts |->
        IF P[s][i].pc = "dead" /\ T[s] # i /\ keep # <<s, i>> THEN NoProbe ELSE P[s][i]]]

CollectRunners(T, ref) ==
    [i \in Runners |-> IF T[i] = "dead" /\ ref # i THEN "none" ELSE T[i]]

CollectMonitors(M, ref) ==
    [i \in 1..MaxRunners |-> IF M[i].pc = "dead" /\ ref # i THEN NoMonitor ELSE M[i]]

FreeProbe(P, s, keep) ==
    {i \in Insts : P[s][i].pc = "none" \/ (P[s][i].pc = "dead" /\ keep # <<s, i>>)}
FreeRunner(T) == {i \in Runners : T[i] \in {"none", "dead"}}
FreeMonitor(M) == {i \in 1..MaxRunners : M[i].pc \in {"none", "dead"}}

\* ---- operations shared by several threads -------------------------------

\* Diagnostics._start_icmp_{gateway,external,cs2}_test: rejected while the
\* slot's current ICMPTest reports running, otherwise a new ICMPTest and a
\* new thread replace the slot's references.
StartIcmpRejected(s, T, P) == T[s] # 0 /\ P[s][T[s]].running

StartIcmpTest(s, host, T, P, keep) ==
    IF StartIcmpRejected(s, T, P)
    THEN [test |-> T, probes |-> CollectProbes(P, T, keep)]
    ELSE LET i == Min(FreeProbe(P, s, keep))
             T2 == [T EXCEPT ![s] = i]
             P2 == [P EXCEPT ![s][i] = [pc |-> "new", running |-> FALSE, host |-> host, arg |-> "None"]]
         IN [test |-> T2, probes |-> CollectProbes(P2, T2, keep)]

CanStartIcmp(s, T, P, keep) ==
    IF StartIcmpRejected(s, T, P) THEN TRUE ELSE FreeProbe(P, s, keep) # {}

\* Diagnostics._stop_icmp_*_test up to the join: ICMPTest.stop() on the
\* slot's current test; the thread to join is the slot's current thread.
StopIcmpTest(s, T, P) ==
    IF T[s] = 0 THEN P ELSE [P EXCEPT ![s][T[s]].running = FALSE]

JoinTarget(s, T) == IF T[s] = 0 THEN NoJoin ELSE <<s, T[s]>>

\* threading.Thread.join() on the recorded probe thread returns
Joined(P, j) == IF j = NoJoin THEN TRUE ELSE ~ProbeAlive(P, j[1], j[2])

\* Diagnostics._run_traceroute: no-op while the referenced thread is alive
RunTracerouteRejected(ref, T) == ref # 0 /\ RunnerAlive(T, ref)

RunTraceroute(host, fast, tr, ref, T) ==
    IF RunTracerouteRejected(ref, T)
    THEN [tr |-> tr, thread |-> ref, threads |-> T]
    ELSE LET i == Min(FreeRunner(T))
         IN [tr |-> [host |-> host, fast |-> fast, hops |-> "None"],
             thread |-> i,
             threads |-> CollectRunners([T EXCEPT ![i] = "run"], i)]

\* Diagnostics._run_speed_test: no-op while the referenced thread is alive
RunSpeedTestRejected(ref, T) == ref # 0 /\ RunnerAlive(T, ref)

RunSpeedTest(tests, st, ref, T) ==
    IF RunSpeedTestRejected(ref, T)
    THEN [st |-> st, thread |-> ref, threads |-> T]
    ELSE LET i == Min(FreeRunner(T))
         IN [st |-> [tests |-> tests, results |-> "None"],
             thread |-> i,
             threads |-> CollectRunners([T EXCEPT ![i] = "run"], i)]

CanRun(ref, T) == IF ref # 0 /\ RunnerAlive(T, ref) THEN TRUE ELSE FreeRunner(T) # {}

\* Diagnostics._wait_traceroute / _wait_speed_test return
RunnerJoined(ref, T) == IF ref = 0 THEN TRUE ELSE ~RunnerAlive(T, ref)

\* Diagnostics._start_interface_update
StartInterfaceUpdateRejected(ref, M) == ref # 0 /\ MonitorAlive(M, ref)

StartInterfaceUpdate(flag, ref, M) ==
    IF StartInterfaceUpdateRejected(ref, M)
    THEN [flag |-> flag, thread |-> ref, monitors |-> M]
    ELSE LET i == Min(FreeMonitor(M))
         IN [flag |-> TRUE, thread |-> i,
             monitors |-> CollectMonitors(
                 [M EXCEPT ![i] = [pc |-> "loop", local |-> NoInterface]], i)]

CanStartMonitor(ref, M) ==
    IF StartInterfaceUpdateRejected(ref, M) THEN TRUE ELSE FreeMonitor(M) # {}

\* Diagnostics._stop_interface_update: its join returns
MonitorJoined(ref, M) == IF ref = 0 THEN TRUE ELSE ~MonitorAlive(M, ref)

\* an update callback that never clears the counter
UpdateKeepsCounter(lost, conn, seq, max) ==
    LET seq2 == IF lost THEN seq + 1 ELSE seq
        conn2 == IF lost THEN conn ELSE TRUE
    IN [seq |-> seq2, conn |-> IF seq2 >= max THEN FALSE ELSE conn2]

\* an update callback that marks connectivity lost at the first timeout
UpdateIgnoresThreshold(lost, conn, seq, max) ==
    LET seq2 == IF lost THEN seq + 1 ELSE 0
    IN [seq |-> seq2, conn |-> ~lost]

\* a stable-to-interrupted transition that leaves the state flag clear
OnConnectivityLostStaysStable(total) == [active |-> FALSE, total |-> total + 1]

\* a stable-to-interrupted transition that does not count
OnConnectivityLostUncounted(total) == [active |-> TRUE, total |-> total]

\* Diagnostics._on_icmp_external_test_update: the counter and the flag
OnIcmpExternalTestUpdate(lost, conn, seq, max) ==
    LET seq2 == IF lost THEN seq + 1 ELSE 0
        conn2 == IF lost THEN conn ELSE TRUE
    IN [seq |-> seq2, conn |-> IF seq2 >= max THEN FALSE ELSE conn2]

\* _watchdog_run, the stable-to-interrupted transition: the state flag and
\* the session's interruption counter
OnConnectivityLost(total) == [active |-> TRUE, total |-> total + 1]

\* _on_interruption_start: the retry loop's condition and its break
EscalationContinues(run, active, conn) == run /\ active

EscalationAllDone(tr, short, long, long_needed) == tr /\ short /\ long

\* the speed-test preset the escalation engine passes for the long run
LongSpeedTestPreset == "SHORT_TESTS"

\* ---- initial state: Diagnostics.__init__ --------------------------------

\* ---- the wall clock -----------------------------------------------------

\* UTC offsets of the local time zone in half hours: daylight saving time and
\* standard time
Offsets == {2, 4}
SummerOffset == CHOOSE o \in Offsets : \A p \in Offsets : p <= o

\* ---- RTTData: the round-trip-time accumulator ---------------------------

\* Python floats are modelled as exact fractions n/d with d > 0; None has d = 0
None == [n |-> 0, d |-> 0]
IsNone(x) == x.d = 0
Float(v) == [n |-> v, d |-> 1]

Abs(k) == IF k < 0 THEN -k ELSE k
RatAdd(a, b) == [n |-> a.n * b.d + b.n * a.d, d |-> a.d * b.d]
RatSub(a, b) == [n |-> a.n * b.d - b.n * a.d, d |-> a.d * b.d]
RatAbs(a) == [n |-> Abs(a.n), d |-> a.d]
RatMul(k, a) == [n |-> k * a.n, d |-> a.d]
RatDiv(a, k) == [n |-> a.n, d |-> a.d * k]
RatEq(a, b) == ~IsNone(a) /\ ~IsNone(b) /\ a.n * b.d = b.n * a.d
RatLess(a, b) == a.n * b.d < b.n * a.d

\* the replies a probe hands to update(): a latency, or None for a timeout
Latencies == {10, 20}
LatencyInputs == {None} \cup {Float(v) : v \in Latencies}

\* RTTData.__init__
NewRTTData ==
    [initial_data |-> FALSE, last |-> None, average |-> None, minimum |-> None,
     maximum |-> None, jitter |-> None, sent |-> 0, received |-> 0]

\* RTTData.loss
Loss(r) == IF r.sent = 0 THEN Float(0)
           ELSE RatSub(Float(1), [n |-> r.received, d |-> r.sent])

\* an update(None) that counts nothing
UpdateLostUncounted(r) == r

\* RTTData.update, latency is None
UpdateLost(r) == [r EXCEPT !.sent = @ + 1]

\* a first sample that leaves the jitter undefined
UpdateFirstNoJitter(r, latency) ==
    [initial_data |-> TRUE, last |-> latency, average |-> latency,
     minimum |-> latency, maximum |-> latency, jitter |-> None,
     sent |-> r.sent + 1, received |-> r.received + 1]

\* RTTData.update, the first successful sample
UpdateFirst(r, latency) ==
    [initial_data |-> TRUE, last |-> latency, average |-> latency,
     minimum |-> latency, maximum |-> latency, jitter |-> Float(0),
     sent |-> r.sent + 1, received |-> r.received + 1]

\* RTTData.update, a later successful sample: self._sent is incremented
\* before it weighs the old average and the old jitter
UpdateNext(r, latency) ==
    LET sent == r.sent + 1
        last_jitter == RatAbs(RatSub(latency, r.last))
    IN [initial_data |-> TRUE,
        last |-> latency,
        average |-> RatDiv(RatAdd(RatMul(sent, r.average), latency), sent + 1),
        minimum |-> IF RatLess(latency, r.minimum) THEN latency ELSE r.minimum,
        maximum |-> IF RatLess(r.maximum, latency) THEN latency ELSE r.maximum,
        jitter |-> RatDiv(RatAdd(RatMul(sent, r.jitter), last_jitter), sent + 1),
        sent |-> sent,
        received |-> r.received + 1]

\* RTTData.update(latency)
Update(r, latency) ==
    IF IsNone(latency) THEN UpdateLost(r)
    ELSE IF ~r.initial_data THEN UpdateFirst(r, latency)
    ELSE UpdateNext(r, latency)

\* ---- Traceroute.format ------------------------------------------------------

\* a hop is its distance; a line is its kind and the distance it is about
HeaderLines ==
    <<[kind |-> "host", distance |-> 0], [kind |-> "header", distance |-> 0]>>
GapLine(i) == [kind |-> "gap", distance |-> i]
HopLine(distance) == [kind |-> "hop", distance |-> distance]

\* a format() that synthesizes no line for a missing distance
NoGapLines(last_distance, distance) == <<>>

\* the inner loop: for i in range(last_distance + 1, hop.distance)
GapLines(last_distance, distance) ==
    [i \in 1..(distance - last_distance - 1) |-> GapLine(last_distance + i)]

RECURSIVE FormatHops(_, _)
\* the outer loop: for hop in self._hops
FormatHops(hops, last_distance) ==
    IF hops = <<>> THEN <<>>
    ELSE GapLines(last_distance, Head(hops)) \o <<HopLine(Head(hops))>>
             \o FormatHops(Tail(hops), Head(hops))

\* Traceroute.format()
Format(hops) == HeaderLines \o FormatHops(hops, 0)

\* ---- session directory names ---------------------------------------------

\* A name is the sequence of its parts in the order of its characters: the
\* local time and the UTC offset of the timestamp (both of fixed width), then
\* for a collision suffix the dot and the decimal digits of the number.
RECURSIVE Digits(_)
Digits(n) == IF n < 10 THEN <<n>> ELSE Digits(n \div 10) \o <<n % 10>>

\* datetime.now().astimezone().strftime('%Y-%m-%dT%H-%M-%S%z')
Timestamp(instant, offset) == <<instant + offset, offset>>

\* f'{timestamp}.{i}'
Suffixed(timestamp, i) == timestamp \o <<-1>> \o Digits(i)

\* a collision loop that tries one suffix only
NextFreeNameNoLoop(timestamp, i, existing) == Suffixed(timestamp, i)

RECURSIVE NextFreeName(_, _, _)
\* start(): while current_diagnostics_dir.exists()
NextFreeName(timestamp, i, existing) ==
    IF Suffixed(timestamp, i) \in existing
    THEN NextFreeName(timestamp, i + 1, existing)
    ELSE Suffixed(timestamp, i)

\* start(): the session directory for a timestamp
AllocateDirectory(timestamp, existing) ==
    IF timestamp \in existing THEN NextFreeName(timestamp, 2, existing) ELSE timestamp

\* the order of str: the first differing character decides, a proper prefix
\* comes first
StrLess(a, b) ==
    \/ \E k \in 1..Len(a) :
          /\ k <= Len(b)
          /\ \A j \in 1..(k - 1) : a[j] = b[j]
          /\ a[k] < b[k]
    \/ Len(a) < Len(b) /\ \A j \in 1..Len(a) : a[j] = b[j]

RECURSIVE SortedReverse(_)
\* sorted(..., key=name, reverse=True)
SortedReverse(S) ==
    IF S = {} THEN <<>>
    ELSE LET m == CHOOSE x \in S : \A y \in S \ {x} : StrLess(y, x)
         IN <<m>> \o SortedReverse(S \ {m})

\* Diagnostics.get_diagnostics_history(): the names, each with its path
GetDiagnosticsHistory(existing) == SortedReverse(existing)

\* Diagnostics.get_last_diagnostics(); <<>> is None
GetLastDiagnostics(existing) ==
    IF GetDiagnosticsHistory(existing) # <<>>
    THEN GetDiagnosticsHistory(existing)[1] ELSE <<>>

InitWith(threshold) ==
    /\ callerpc = "idle" /\ caller_join = 0
    /\ running = FALSE /\ watchdog_thread = 0
    /\ wpc = [t \in Sessions |-> "none"]
    /\ dirs = {} /\ firewall = FALSE
    /\ stop_diagnostics_logging = 0 /\ logging_active = {} /\ cb_stops = 0
    /\ active_interruption = FALSE /\ total_interruptions = 0
    /\ internet_connectivity = TRUE
    /\ icmp_external_test_seq_loss = 0
    /\ icmp_max_seq_loss = threshold
    /\ cb_starts = 0 /\ cb_ends = 0 /\ cb_total = 0
    /\ interface = NoInterface /\ interface_stats = "None"
    /\ interface_changed = FALSE
    /\ interface_update_running = FALSE /\ interface_update_thread = 0
    /\ monitors = [i \in 1..MaxRunners |-> NoMonitor]
    /\ icmp_external_test_server = InitialExternalServer
    /\ icmp_external_test_server_changed = FALSE
    /\ icmp_cs2_test_server = "None"
    /\ icmp_cs2_test_server_changed = FALSE
    /\ icmp_test = [s \in Slots |-> 0]
    /\ probes = [s \in Slots |-> [i \in Insts |-> NoProbe]]
    /\ traceroute = NoTraceroute /\ traceroute_thread = 0
    /\ tr_threads = [i \in Runners |-> "none"]
    /\ speed_test = NoSpeedTest /\ speed_test_thread = 0
    /\ sp_threads = [i \in Runners |-> "none"]
    /\ long_speed_test = FALSE /\ traceroute_succeeded = FALSE
    /\ short_speed_test_succeeded = FALSE /\ long_speed_test_succeeded = FALSE
    /\ w_gateway_address = "" /\ w_cs2_server = "None" /\ w_join = NoJoin
    /\ rtt_data = NewRTTData /\ rtt_calls = <<>>
    /\ cb_seen = <<>>
    /\ hop_list = <<>> /\ format_lines = <<>>
    /\ diagnostics_dir = {} /\ started = <<>>
    /\ clock = 0 /\ utc_offset = SummerOffset
    /\ exported = {}

Init == InitWith(DefaultMaxSeqLoss)

\* ---- the calling thread -------------------------------------------------

NextSession == Cardinality({t \in Sessions : wpc[t] # "none"}) + 1

\* Diagnostics.start(), by the outcome of its entry actions
StartRejected == watchdog_thread # 0 /\ WatchdogAlive(watchdog_thread)

\* a start() that launches the control thread although session logging failed
StartEntryLaunchesOnLoggingError(outcome, t) ==
    /\ running' = (outcome \in {"ok", "mkdir_oserror"})
    /\ firewall' = IF outcome = "exists_error" THEN firewall ELSE
                   IF outcome = "firewall_error" THEN firewall ELSE TRUE
    /\ dirs' = IF outcome \in {"ok", "logging_error"} THEN dirs \cup {t} ELSE dirs
    /\ stop_diagnostics_logging' = IF outcome = "ok" THEN t ELSE stop_diagnostics_logging
    /\ logging_active' = IF outcome = "ok" THEN logging_active \cup {t} ELSE logging_active
    /\ watchdog_thread' = IF outcome \in {"ok", "logging_error"} THEN t ELSE watchdog_thread
    /\ wpc' = IF outcome \in {"ok", "logging_error"} THEN [wpc EXCEPT ![t] = "begin"] ELSE wpc
    /\ cb_starts' = IF outcome = "ok" THEN 0 ELSE cb_starts
    /\ cb_ends' = IF outcome = "ok" THEN 0 ELSE cb_ends

StartEntry(outcome, t) ==
    /\ running' = (outcome \in {"ok", "mkdir_oserror"})
    /\ firewall' = IF outcome = "exists_error" THEN firewall ELSE
                   IF outcome = "firewall_error" THEN firewall ELSE TRUE
    /\ dirs' = IF outcome \in {"ok", "logging_error"} THEN dirs \cup {t} ELSE dirs
    /\ stop_diagnostics_logging' = IF outcome = "ok" THEN t ELSE stop_diagnostics_logging
    /\ logging_active' = IF outcome = "ok" THEN logging_active \cup {t} ELSE logging_active
    /\ watchdog_thread' = IF outcome = "ok" THEN t ELSE watchdog_thread
    /\ wpc' = IF outcome = "ok" THEN [wpc EXCEPT ![t] = "begin"] ELSE wpc
    /\ cb_starts' = IF outcome = "ok" THEN 0 ELSE cb_starts
    /\ cb_ends' = IF outcome = "ok" THEN 0 ELSE cb_ends

Start(outcome) ==
    /\ callerpc = "idle"
    /\ IF StartRejected
       THEN UNCHANGED vars
       ELSE /\ NextSession \in Sessions
            /\ StartEntry(outcome, NextSession)
            /\ UNCHANGED <<rttVars, auxVars, callerVars, cb_stops, active_interruption,
                           total_interruptions, internet_connectivity,
                           icmp_external_test_seq_loss, icmp_max_seq_loss, cb_total,
                           ifVars, srvVars, probeVars, trVars, spVars, escVars, wLocals>>

\* Diagnostics.stop(blocking)
Stop(blocking) ==
    /\ callerpc = "idle"
    /\ running' = FALSE
    /\ IF blocking /\ watchdog_thread # 0
       THEN callerpc' = "join" /\ caller_join' = watchdog_thread
       ELSE UNCHANGED callerVars
    /\ UNCHANGED <<rttVars, auxVars, watchdog_thread, wpc, dirs, firewall, stop_diagnostics_logging,
                   logging_active, cb_stops, connVars, ifVars, srvVars, probeVars,
                   trVars, spVars, escVars, wLocals>>

\* the join inside stop(blocking=True) returns
StopJoined ==
    /\ callerpc = "join"
    /\ ~WatchdogAlive(caller_join)
    /\ callerpc' = "idle" /\ caller_join' = 0
    /\ UNCHANGED <<rttVars, auxVars, sessVars, connVars, ifVars, srvVars, probeVars,
                   trVars, spVars, escVars, wLocals>>

\* Diagnostics.set_icmp_external_test_server(server), server not None
SetIcmpExternalTestServer(server) ==
    /\ callerpc = "idle"
    /\ icmp_external_test_server' = server
    /\ icmp_external_test_server_changed' = TRUE
    /\ UNCHANGED <<rttVars, auxVars, callerVars, sessVars, connVars, ifVars, icmp_cs2_test_server,
                   icmp_cs2_test_server_changed, probeVars, trVars, spVars,
                   escVars, wLocals>>

\* Diagnostics.set_icmp_cs2_test_server(server)
SetIcmpCs2TestServer(server) ==
    /\ callerpc = "idle"
    /\ IF icmp_cs2_test_server = server
       THEN UNCHANGED <<icmp_cs2_test_server, icmp_cs2_test_server_changed>>
       ELSE /\ icmp_cs2_test_server' = server
            /\ icmp_cs2_test_server_changed' = TRUE
    /\ UNCHANGED <<rttVars, auxVars, callerVars, sessVars, connVars, ifVars, icmp_external_test_server,
                   icmp_external_test_server_changed, probeVars, trVars, spVars,
                   escVars, wLocals>>

\* ---- the control thread: _watchdog_run ----------------------------------

sessRest == <<running, watchdog_thread, dirs, firewall, stop_diagnostics_logging,
              logging_active, cb_stops>>
connRest == <<internet_connectivity, icmp_external_test_seq_loss, icmp_max_seq_loss>>

At(t, pc) == wpc[t] = pc
Goto(t, pc) == wpc' = [wpc EXCEPT ![t] = pc]

\* where the poll loop goes on after a section: the next raised flag, or the
\* sleep at the end of the iteration
AfterExternal == IF icmp_cs2_test_server_changed THEN "chk_cs2" ELSE "poll"
AfterInterface == IF icmp_external_test_server_changed THEN "chk_ext" ELSE AfterExternal
AfterConnectivity == IF interface_changed THEN "chk_if" ELSE AfterInterface

DoRunTraceroute(host, fast) ==
    LET r == RunTraceroute(host, fast, traceroute, traceroute_thread, tr_threads)
    IN /\ CanRun(traceroute_thread, tr_threads)
       /\ traceroute' = r.tr
       /\ traceroute_thread' = r.thread
       /\ tr_threads' = r.threads

DoRunSpeedTest(tests) ==
    LET r == RunSpeedTest(tests, speed_test, speed_test_thread, sp_threads)
    IN /\ CanRun(speed_test_thread, sp_threads)
       /\ speed_test' = r.st
       /\ speed_test_thread' = r.thread
       /\ sp_threads' = r.threads

DoStartInterfaceUpdate ==
    LET r == StartInterfaceUpdate(interface_update_running, interface_update_thread, monitors)
    IN /\ CanStartMonitor(interface_update_thread, monitors)
       /\ interface_update_running' = r.flag
       /\ interface_update_thread' = r.thread
       /\ monitors' = r.monitors

\* lines 201-202
W_begin(t) ==
    /\ At(t, "begin")
    /\ DoStartInterfaceUpdate
    /\ Goto(t, "wait_if")
    /\ UNCHANGED <<rttVars, auxVars, callerVars, sessRest, connVars, interface, interface_stats,
                   interface_changed, srvVars, probeVars, trVars, spVars, escVars, wLocals>>

\* lines 205-210: wait for the monitor's first pass, or leave on stop
W_wait_if(t) ==
    /\ At(t, "wait_if")
    /\ IF interface_update_thread # 0 /\ MonitorAlive(monitors, interface_update_thread)
       THEN /\ ~running
            /\ interface_update_running' = FALSE
            /\ Goto(t, "early_join")
       ELSE /\ Goto(t, "init")
            /\ UNCHANGED interface_update_running
    /\ UNCHANGED <<rttVars, auxVars, callerVars, sessRest, connVars, interface, interface_stats,
                   interface_changed, interface_update_thread, monitors,
                   srvVars, probeVars, trVars, spVars, escVars, wLocals>>

\* line 208-209: the join of _stop_interface_update, then return
W_early_join(t) ==
    /\ At(t, "early_join")
    /\ MonitorJoined(interface_update_thread, monitors)
    /\ Goto(t, "cu1")
    /\ UNCHANGED <<rttVars, auxVars, callerVars, sessRest, connVars, ifVars, srvVars, probeVars,
                   trVars, spVars, escVars, wLocals>>

\* lines 213-222: initial traceroute and gateway probe
W_init(t) ==
    /\ At(t, "init")
    /\ DoRunTraceroute(icmp_external_test_server, FALSE)
    /\ IF interface = NoInterface
       THEN /\ Goto(t, "cu1")
            /\ UNCHANGED probeVars
       ELSE LET r == StartIcmpTest("gw", interface.gw, icmp_test, probes, NoJoin)
            IN /\ CanStartIcmp("gw", icmp_test, probes, NoJoin)
               /\ icmp_test' = r.test /\ probes' = r.probes
               /\ Goto(t, "init2")
    /\ UNCHANGED <<rttVars, auxVars, callerVars, sessRest, connVars, ifVars, srvVars, spVars, escVars, wLocals>>

\* lines 224-235: external and secondary probes
W_init2(t) ==
    /\ At(t, "init2")
    /\ IF icmp_external_test_server = ""
       THEN /\ Goto(t, "cu1")
            /\ UNCHANGED probeVars
       ELSE LET r1 == StartIcmpTest("ext", icmp_external_test_server, icmp_test, probes, NoJoin)
                r2 == IF icmp_cs2_test_server # "None"
                      THEN StartIcmpTest("cs2", icmp_cs2_test_server, r1.test, r1.probes, NoJoin)
                      ELSE r1
            IN /\ CanStartIcmp("ext", icmp_test, probes, NoJoin)
               /\ icmp_cs2_test_server # "None" => CanStartIcmp("cs2", icmp_test, probes, NoJoin)
               /\ icmp_test' = r2.test /\ probes' = r2.probes
               /\ Goto(t, "poll")
    /\ UNCHANGED <<rttVars, auxVars, callerVars, sessRest, connVars, ifVars, srvVars, trVars, spVars,
                   escVars, wLocals>>

\* lines 237-252: the loop test and the connectivity transition
W_poll(t) ==
    /\ At(t, "poll")
    /\ IF ~running
       THEN /\ Goto(t, "cu1")
            /\ UNCHANGED <<active_interruption, total_interruptions, cb_starts,
                           cb_ends, cb_total>>
       ELSE IF ~internet_connectivity /\ ~active_interruption
       THEN /\ active_interruption' = OnConnectivityLost(total_interruptions).active
            /\ total_interruptions' = OnConnectivityLost(total_interruptions).total
            /\ cb_starts' = cb_starts + 1
            /\ cb_total' = OnConnectivityLost(total_interruptions).total
            /\ Goto(t, "esc_wait")
            /\ UNCHANGED cb_ends
       ELSE IF internet_connectivity /\ active_interruption
       THEN /\ active_interruption' = FALSE
            /\ cb_ends' = cb_ends + 1
            /\ Goto(t, AfterConnectivity)
            /\ UNCHANGED <<total_interruptions, cb_starts, cb_total>>
       ELSE /\ Goto(t, AfterConnectivity)
            /\ UNCHANGED <<active_interruption, total_interruptions, cb_starts,
                           cb_ends, cb_total>>
    /\ UNCHANGED <<rttVars, auxVars, callerVars, sessRest, connRest, ifVars, srvVars, probeVars,
                   trVars, spVars, escVars, wLocals>>

\* ---- the escalation engine: _on_interruption_start ----------------------

ResetEscalationLocals ==
    /\ long_speed_test' = FALSE /\ traceroute_succeeded' = FALSE
    /\ short_speed_test_succeeded' = FALSE /\ long_speed_test_succeeded' = FALSE

\* lines 366-384: wait for running tests, restart the monitor
W_esc_wait(t) ==
    /\ At(t, "esc_wait")
    /\ RunnerJoined(traceroute_thread, tr_threads)
    /\ RunnerJoined(speed_test_thread, sp_threads)
    /\ DoStartInterfaceUpdate
    /\ ResetEscalationLocals
    /\ Goto(t, "esc_check")
    /\ UNCHANGED <<rttVars, auxVars, callerVars, sessRest, connVars, interface, interface_stats,
                   interface_changed, srvVars, probeVars, trVars, spVars, wLocals>>

\* lines 386-399: the loop test, the traceroute and the short speed test
W_esc_check(t) ==
    /\ At(t, "esc_check")
    /\ IF EscalationContinues(running, active_interruption, internet_connectivity)
       THEN /\ IF ~traceroute_succeeded
               THEN DoRunTraceroute(icmp_external_test_server, TRUE)
               ELSE UNCHANGED trVars
            /\ IF ~short_speed_test_succeeded
               THEN DoRunSpeedTest("SHORT_TESTS") /\ Goto(t, "esc_short_wait")
               ELSE UNCHANGED spVars /\ Goto(t, "esc_long")
            /\ UNCHANGED escVars
       ELSE /\ ResetEscalationLocals
            /\ Goto(t, AfterConnectivity)
            /\ UNCHANGED <<trVars, spVars>>
    /\ UNCHANGED <<rttVars, auxVars, callerVars, sessRest, connVars, ifVars, srvVars, probeVars, wLocals>>

\* lines 400-407: the short speed test's result and duration
W_esc_short_wait(t) ==
    /\ At(t, "esc_short_wait")
    /\ RunnerJoined(speed_test_thread, sp_threads)
    /\ \E quick \in BOOLEAN :
          IF speed_test.results # "None"
          THEN /\ short_speed_test_succeeded' = TRUE
               /\ long_speed_test' = (long_speed_test \/ quick)
          ELSE UNCHANGED <<short_speed_test_succeeded, long_speed_test>>
    /\ Goto(t, "esc_long")
    /\ UNCHANGED <<rttVars, auxVars, callerVars, sessRest, connVars, ifVars, srvVars, probeVars, trVars,
                   spVars, traceroute_succeeded, long_speed_test_succeeded, wLocals>>

\* a long speed test started whether or not the short one asked for it
W_esc_longUnconditional(t) ==
    /\ At(t, "esc_long")
    /\ IF ~long_speed_test_succeeded
       THEN DoRunSpeedTest(LongSpeedTestPreset) /\ Goto(t, "esc_long_wait")
       ELSE UNCHANGED spVars /\ Goto(t, "esc_tr_wait")
    /\ UNCHANGED <<rttVars, auxVars, callerVars, sessRest, connVars, ifVars, srvVars, probeVars, trVars,
                   escVars, wLocals>>

\* lines 410-414: the long speed test
W_esc_long(t) ==
    /\ At(t, "esc_long")
    /\ IF ~long_speed_test_succeeded /\ long_speed_test
       THEN DoRunSpeedTest(LongSpeedTestPreset) /\ Goto(t, "esc_long_wait")
       ELSE UNCHANGED spVars /\ Goto(t, "esc_tr_wait")
    /\ UNCHANGED <<rttVars, auxVars, callerVars, sessRest, connVars, ifVars, srvVars, probeVars, trVars,
                   escVars, wLocals>>

\* lines 415-418
W_esc_long_wait(t) ==
    /\ At(t, "esc_long_wait")
    /\ RunnerJoined(speed_test_thread, sp_threads)
    /\ long_speed_test_succeeded' = (speed_test.results # "None")
    /\ Goto(t, "esc_tr_wait")
    /\ UNCHANGED <<rttVars, auxVars, callerVars, sessRest, connVars, ifVars, srvVars, probeVars, trVars,
                   spVars, long_speed_test, traceroute_succeeded,
                   short_speed_test_succeeded, wLocals>>

\* lines 420-436: the traceroute's result, then break or sleep
W_esc_tr_wait(t) ==
    /\ At(t, "esc_tr_wait")
    /\ ~traceroute_succeeded => RunnerJoined(traceroute_thread, tr_threads)
    /\ LET tr == traceroute_succeeded \/ traceroute.hops # "None"
       IN IF EscalationAllDone(tr, short_speed_test_succeeded,
                               long_speed_test_succeeded, long_speed_test)
          THEN ResetEscalationLocals /\ Goto(t, AfterConnectivity)
          ELSE /\ traceroute_succeeded' = tr
               /\ Goto(t, "esc_check")
               /\ UNCHANGED <<long_speed_test, short_speed_test_succeeded,
                              long_speed_test_succeeded>>
    /\ UNCHANGED <<rttVars, auxVars, callerVars, sessRest, connVars, ifVars, srvVars, probeVars, trVars,
                   spVars, wLocals>>

\* ---- the poll loop's reactions to changes -------------------------------

\* lines 256-257: the flag was seen raised; read the gateway
W_chk_if(t) ==
    /\ At(t, "chk_if")
    /\ IF interface = NoInterface
       THEN Goto(t, "cu1") /\ UNCHANGED w_gateway_address
       ELSE w_gateway_address' = interface.gw /\ Goto(t, "if_clear")
    /\ UNCHANGED <<rttVars, auxVars, callerVars, sessRest, connVars, ifVars, srvVars, probeVars, trVars,
                   spVars, escVars, w_cs2_server, w_join>>

\* lines 260-262: clear the flag, stop the gateway probe
W_if_clear(t) ==
    /\ At(t, "if_clear")
    /\ interface_changed' = FALSE
    /\ probes' = StopIcmpTest("gw", icmp_test, probes)
    /\ w_join' = JoinTarget("gw", icmp_test)
    /\ Goto(t, "if_join")
    /\ UNCHANGED <<rttVars, auxVars, callerVars, sessRest, connVars, interface, interface_stats,
                   interface_update_running, interface_update_thread, monitors,
                   srvVars, icmp_test, trVars, spVars, escVars, w_gateway_address,
                   w_cs2_server>>

\* lines 262-263: the join returns, start the gateway probe
W_if_join(t) ==
    /\ At(t, "if_join")
    /\ Joined(probes, w_join)
    /\ LET r == StartIcmpTest("gw", w_gateway_address, icmp_test, probes, NoJoin)
       IN /\ CanStartIcmp("gw", icmp_test, probes, NoJoin)
          /\ icmp_test' = r.test /\ probes' = r.probes
    /\ w_join' = NoJoin /\ w_gateway_address' = ""
    /\ Goto(t, "if_wait_tr")
    /\ UNCHANGED <<rttVars, auxVars, callerVars, sessRest, connVars, ifVars, srvVars, trVars, spVars,
                   escVars, w_cs2_server>>

\* lines 265-266
W_if_wait_tr(t) ==
    /\ At(t, "if_wait_tr")
    /\ RunnerJoined(traceroute_thread, tr_threads)
    /\ DoRunTraceroute(icmp_external_test_server, FALSE)
    /\ Goto(t, AfterInterface)
    /\ UNCHANGED <<rttVars, auxVars, callerVars, sessRest, connVars, ifVars, srvVars, probeVars, spVars,
                   escVars, wLocals>>

\* lines 268-272: clear the flag, stop the external probe
W_chk_ext(t) ==
    /\ At(t, "chk_ext")
    /\ icmp_external_test_server_changed' = FALSE
    /\ probes' = StopIcmpTest("ext", icmp_test, probes)
    /\ w_join' = JoinTarget("ext", icmp_test)
    /\ Goto(t, "ext_join")
    /\ UNCHANGED <<rttVars, auxVars, callerVars, sessRest, connVars, ifVars, icmp_external_test_server,
                   icmp_cs2_test_server, icmp_cs2_test_server_changed, icmp_test,
                   trVars, spVars, escVars, w_gateway_address, w_cs2_server>>

\* lines 272-273: the join returns, start the external probe
W_ext_join(t) ==
    /\ At(t, "ext_join")
    /\ Joined(probes, w_join)
    /\ LET r == StartIcmpTest("ext", icmp_external_test_server, icmp_test, probes, NoJoin)
       IN /\ CanStartIcmp("ext", icmp_test, probes, NoJoin)
          /\ icmp_test' = r.test /\ probes' = r.probes
    /\ w_join' = NoJoin
    /\ Goto(t, "ext_wait_tr")
    /\ UNCHANGED <<rttVars, auxVars, callerVars, sessRest, connVars, ifVars, srvVars, trVars, spVars,
                   escVars, w_gateway_address, w_cs2_server>>

\* lines 275-276
W_ext_wait_tr(t) ==
    /\ At(t, "ext_wait_tr")
    /\ RunnerJoined(traceroute_thread, tr_threads)
    /\ DoRunTraceroute(icmp_external_test_server, FALSE)
    /\ Goto(t, AfterExternal)
    /\ UNCHANGED <<rttVars, auxVars, callerVars, sessRest, connVars, ifVars, srvVars, probeVars, spVars,
                   escVars, wLocals>>

\* lines 278-279: the flag was seen raised; read the target
W_chk_cs2(t) ==
    /\ At(t, "chk_cs2")
    /\ w_cs2_server' = icmp_cs2_test_server
    /\ Goto(t, "cs2_clear")
    /\ UNCHANGED <<rttVars, auxVars, callerVars, sessRest, connVars, ifVars, srvVars, probeVars, trVars,
                   spVars, escVars, w_gateway_address, w_join>>

\* lines 282-284: clear the flag, stop the secondary probe
W_cs2_clear(t) ==
    /\ At(t, "cs2_clear")
    /\ icmp_cs2_test_server_changed' = FALSE
    /\ probes' = StopIcmpTest("cs2", icmp_test, probes)
    /\ w_join' = JoinTarget("cs2", icmp_test)
    /\ Goto(t, "cs2_join")
    /\ UNCHANGED <<rttVars, auxVars, callerVars, sessRest, connVars, ifVars, icmp_external_test_server,
                   icmp_external_test_server_changed, icmp_cs2_test_server, icmp_test,
                   trVars, spVars, escVars, w_gateway_address, w_cs2_server>>

\* lines 284-287: the join returns, start the secondary probe if a target is set
W_cs2_join(t) ==
    /\ At(t, "cs2_join")
    /\ Joined(probes, w_join)
    /\ IF w_cs2_server # "None"
       THEN LET r == StartIcmpTest("cs2", w_cs2_server, icmp_test, probes, NoJoin)
            IN /\ CanStartIcmp("cs2", icmp_test, probes, NoJoin)
               /\ icmp_test' = r.test /\ probes' = r.probes
               /\ Goto(t, "cs2_wait_tr")
               /\ UNCHANGED w_cs2_server
       ELSE /\ probes' = CollectProbes(probes, icmp_test, NoJoin)
            /\ w_cs2_server' = "None"
            /\ Goto(t, "poll")
            /\ UNCHANGED icmp_test
    /\ w_join' = NoJoin
    /\ UNCHANGED <<rttVars, auxVars, callerVars, sessRest, connVars, ifVars, srvVars, trVars, spVars,
                   escVars, w_gateway_address>>

\* lines 289-290
W_cs2_wait_tr(t) ==
    /\ At(t, "cs2_wait_tr")
    /\ RunnerJoined(traceroute_thread, tr_threads)
    /\ DoRunTraceroute(w_cs2_server, FALSE)
    /\ w_cs2_server' = "None"
    /\ Goto(t, "poll")
    /\ UNCHANGED <<rttVars, auxVars, callerVars, sessRest, connVars, ifVars, srvVars, probeVars, spVars,
                   escVars, w_gateway_address, w_join>>

\* ---- teardown: _clean_up ------------------------------------------------

\* line 299
W_cu1(t) ==
    /\ At(t, "cu1")
    /\ running' = FALSE
    /\ Goto(t, "cu2")
    /\ UNCHANGED <<rttVars, auxVars, callerVars, watchdog_thread, dirs, firewall, stop_diagnostics_logging,
                   logging_active, cb_stops, connVars, ifVars, srvVars, probeVars,
                   trVars, spVars, escVars, wLocals>>

\* _stop_icmp_*_test of slot s up to its join, going on at pc
CleanUpStop(t, s, pc) ==
    /\ probes' = CollectProbes(StopIcmpTest(s, icmp_test, probes), icmp_test, NoJoin)
    /\ w_join' = JoinTarget(s, icmp_test)
    /\ Goto(t, pc)
    /\ UNCHANGED <<rttVars, auxVars, callerVars, sessRest, connVars, ifVars, srvVars, icmp_test, trVars,
                   spVars, escVars, w_gateway_address, w_cs2_server>>

\* lines 301-303
W_cu2(t) ==
    /\ At(t, "cu2")
    /\ RunnerJoined(traceroute_thread, tr_threads)
    /\ RunnerJoined(speed_test_thread, sp_threads)
    /\ CleanUpStop(t, "gw", "cu_join_gw")

\* lines 303-304
W_cu_join_gw(t) ==
    /\ At(t, "cu_join_gw")
    /\ Joined(probes, w_join)
    /\ CleanUpStop(t, "ext", "cu_join_ext")

\* lines 304-305
W_cu_join_ext(t) ==
    /\ At(t, "cu_join_ext")
    /\ Joined(probes, w_join)
    /\ CleanUpStop(t, "cs2", "cu_join_cs2")

\* lines 305-306
W_cu_join_cs2(t) ==
    /\ At(t, "cu_join_cs2")
    /\ Joined(probes, w_join)
    /\ interface_update_running' = FALSE
    /\ w_join' = NoJoin
    /\ probes' = CollectProbes(probes, icmp_test, NoJoin)
    /\ Goto(t, "cu_join_if")
    /\ UNCHANGED <<rttVars, auxVars, callerVars, sessRest, connVars, interface, interface_stats,
                   interface_changed, interface_update_thread, monitors, srvVars,
                   icmp_test, trVars, spVars, escVars, w_gateway_address, w_cs2_server>>

\* lines 306-332: the monitor's join returns, the session state is discarded
W_cu_join_if(t) ==
    /\ At(t, "cu_join_if")
    /\ MonitorJoined(interface_update_thread, monitors)
    /\ active_interruption' = FALSE
    /\ total_interruptions' = 0
    /\ watchdog_thread' = 0
    /\ interface' = NoInterface /\ interface_stats' = "None"
    /\ interface_changed' = FALSE
    /\ interface_update_thread' = 0
    /\ monitors' = CollectMonitors(monitors, 0)
    /\ icmp_test' = [s \in Slots |-> 0]
    /\ probes' = CollectProbes(probes, [s \in Slots |-> 0], NoJoin)
    /\ traceroute' = NoTraceroute /\ traceroute_thread' = 0
    /\ tr_threads' = CollectRunners(tr_threads, 0)
    /\ speed_test' = NoSpeedTest /\ speed_test_thread' = 0
    /\ sp_threads' = CollectRunners(sp_threads, 0)
    /\ Goto(t, "cu_firewall")
    /\ UNCHANGED <<rttVars, auxVars, callerVars, running, dirs, firewall, stop_diagnostics_logging,
                   logging_active, cb_stops, connRest, cb_starts, cb_ends, cb_total,
                   interface_update_running, srvVars, escVars, wLocals>>

\* lines 334-338: remove_firewall_rules, an OSError is logged
W_cu_firewall(t) ==
    /\ At(t, "cu_firewall")
    /\ \E removed \in BOOLEAN : firewall' = (firewall /\ ~removed)
    /\ Goto(t, "cu_logging")
    /\ UNCHANGED <<rttVars, auxVars, callerVars, running, watchdog_thread, dirs, stop_diagnostics_logging,
                   logging_active, cb_stops, connVars, ifVars, srvVars, probeVars,
                   trVars, spVars, escVars, wLocals>>

\* lines 340-348: stop session logging, completion callback, thread ends
W_cu_logging(t) ==
    /\ At(t, "cu_logging")
    /\ logging_active' = logging_active \ {stop_diagnostics_logging}
    /\ stop_diagnostics_logging' = 0
    /\ cb_stops' = cb_stops + 1
    /\ Goto(t, "dead")
    /\ UNCHANGED <<rttVars, auxVars, callerVars, running, watchdog_thread, dirs, firewall, connVars,
                   ifVars, srvVars, probeVars, trVars, spVars, escVars, wLocals>>

\* ---- an ICMP probe thread: ICMPTest.run ---------------------------------

\* environment bound: a further loss may be reported
MayLose ==
    /\ total_interruptions < MaxInterruptions
    /\ icmp_external_test_seq_loss < MaxSeqLoss

\* ICMPTest._error, then the slot's error handler up to its sleep: the handler
\* reads the slot's current test, and the external one marks connectivity lost
ProbeFails(s, i) ==
    IF icmp_test[s] = 0
    THEN /\ probes' = CollectProbes(
                [probes EXCEPT ![s][i].running = FALSE, ![s][i].pc = "dead"],
                icmp_test, w_join)
         /\ UNCHANGED internet_connectivity
    ELSE /\ probes' = [probes EXCEPT ![s][i].running = FALSE, ![s][i].pc = "handler"]
         /\ internet_connectivity' = IF s = "ext" THEN FALSE ELSE internet_connectivity

\* lines 1058-1069: the thread's first statements, name resolution
ProbeRun(s, i, resolved) ==
    /\ probes[s][i].pc = "new"
    /\ IF resolved
       THEN /\ probes' = [probes EXCEPT ![s][i].running = TRUE, ![s][i].pc = "loop"]
            /\ UNCHANGED internet_connectivity
       ELSE /\ s = "ext" => MayLose
            /\ ProbeFails(s, i)
    /\ UNCHANGED <<rttVars, auxVars, callerVars, sessVars, active_interruption, total_interruptions,
                   icmp_external_test_seq_loss, icmp_max_seq_loss, cb_starts, cb_ends,
                   cb_total, ifVars, srvVars, icmp_test, trVars, spVars, escVars, wLocals>>

\* lines 1082-1098: one iteration of the loop with the update callback
ProbeIteration(s, i, outcome) ==
    /\ probes[s][i].pc = "loop"
    /\ IF ~probes[s][i].running
       THEN /\ probes' = CollectProbes([probes EXCEPT ![s][i].pc = "dead"], icmp_test, w_join)
            /\ UNCHANGED <<internet_connectivity, icmp_external_test_seq_loss>>
       ELSE IF outcome = "error"
       THEN /\ s = "ext" => MayLose
            /\ ProbeFails(s, i)
            /\ UNCHANGED icmp_external_test_seq_loss
       ELSE IF s = "ext"
       THEN LET r == OnIcmpExternalTestUpdate(outcome = "timeout", internet_connectivity,
                                              icmp_external_test_seq_loss, icmp_max_seq_loss)
            IN /\ outcome = "timeout" => MayLose
               /\ internet_connectivity' = r.conn
               /\ icmp_external_test_seq_loss' = r.seq
               /\ UNCHANGED probes
       ELSE UNCHANGED <<probes, internet_connectivity, icmp_external_test_seq_loss>>
    /\ UNCHANGED <<rttVars, auxVars, callerVars, sessVars, active_interruption, total_interruptions,
                   icmp_max_seq_loss, cb_starts, cb_ends, cb_total, ifVars, srvVars,
                   icmp_test, trVars, spVars, escVars, wLocals>>

\* the target the slot's error handler restarts the probe against, "None" if none
RestartTarget(s) ==
    IF s = "ext" THEN icmp_external_test_server
    ELSE IF s = "cs2" THEN icmp_cs2_test_server
    ELSE IF interface = NoInterface THEN "None" ELSE interface.gw

\* the error handler after its sleep: it reads the target to restart the
\* probe against; the start function it then calls logs before it looks at
\* the slot
ProbeHandlerWakes(s, i) ==
    /\ probes[s][i].pc = "handler"
    /\ probes' = [probes EXCEPT ![s][i].pc = "restart", ![s][i].arg = RestartTarget(s)]
    /\ UNCHANGED <<rttVars, auxVars, callerVars, sessVars, connVars, ifVars, srvVars, icmp_test,
                   trVars, spVars, escVars, wLocals>>

\* the error handler restarts the probe against the target it read, then the
\* thread ends
ProbeRestart(s, i) ==
    /\ probes[s][i].pc = "restart"
    /\ LET P == [probes EXCEPT ![s][i].pc = "dead"]
       IN IF probes[s][i].arg = "None"
          THEN /\ probes' = CollectProbes(P, icmp_test, w_join)
               /\ UNCHANGED icmp_test
          ELSE LET r == StartIcmpTest(s, probes[s][i].arg, icmp_test, probes, w_join)
               IN /\ CanStartIcmp(s, icmp_test, probes, w_join)
                  /\ icmp_test' = r.test
                  /\ probes' = CollectProbes([r.probes EXCEPT ![s][i].pc = "dead"],
                                             r.test, w_join)
    /\ UNCHANGED <<rttVars, auxVars, callerVars, sessVars, connVars, ifVars, srvVars, trVars, spVars,
                   escVars, wLocals>>

\* ---- the interface monitor thread: _interface_update_run ----------------

\* a monitor whose thread never ends
MonitorNeverEnds(i) ==
    monitors' = monitors

\* a comparison that does not look at the MAC address
InterfaceDiffersIgnoresMac(a, b) ==
    \/ a.id # b.id
    \/ a.name # b.name
    \/ a.ipv4 # b.ipv4
    \/ a.gw # b.gw

InterfaceDiffers(a, b) ==
    \/ a.id # b.id
    \/ a.name # b.name
    \/ a.mac # b.mac
    \/ a.ipv4 # b.ipv4
    \/ a.gw # b.gw

MonitorEnds(i) ==
    monitors' = CollectMonitors([monitors EXCEPT ![i].pc = "dead"], interface_update_thread)

\* one iteration: query is the queried interface (NoInterface: the query
\* failed), stats the queried link state ("fail": the query failed)
MonitorIteration(i, query, stats) ==
    /\ monitors[i].pc = "loop"
    /\ LET cur == IF query = NoInterface THEN monitors[i].local ELSE query
       IN IF ~interface_update_running
          THEN /\ MonitorEnds(i)
               /\ UNCHANGED <<interface, interface_stats, interface_changed,
                              interface_update_running>>
          ELSE IF \/ query = NoInterface /\ interface = NoInterface
                  \/ cur = NoInterface
                  \/ stats = "fail"
          THEN /\ monitors' = [monitors EXCEPT ![i].local = cur]
               /\ UNCHANGED <<interface, interface_stats, interface_changed,
                              interface_update_running>>
          ELSE /\ IF interface = NoInterface
                  THEN /\ interface' = cur /\ interface_stats' = stats
                       /\ UNCHANGED interface_changed
                  ELSE IF InterfaceDiffers(interface, cur)
                  THEN /\ interface' = cur /\ interface_stats' = stats
                       /\ interface_changed' = TRUE
                  ELSE /\ interface_stats' = stats
                       /\ UNCHANGED <<interface, interface_changed>>
               /\ IF stats = "up"
                  THEN /\ interface_update_running' = FALSE
                       /\ MonitorEnds(i)
                  ELSE /\ monitors' = [monitors EXCEPT ![i].local = cur]
                       /\ UNCHANGED interface_update_running
    /\ UNCHANGED <<rttVars, auxVars, callerVars, sessVars, connVars, interface_update_thread, srvVars,
                   probeVars, trVars, spVars, escVars, wLocals>>

\* ---- the traceroute and speed-test threads ------------------------------

\* the wrapper of _run_traceroute: Traceroute.run, then the thread ends
TracerouteRun(i, ok) ==
    /\ tr_threads[i] = "run"
    /\ traceroute' = IF ok /\ traceroute # NoTraceroute
                     THEN [traceroute EXCEPT !.hops = "ok"] ELSE traceroute
    /\ tr_threads' = CollectRunners([tr_threads EXCEPT ![i] = "dead"], traceroute_thread)
    /\ UNCHANGED <<rttVars, auxVars, callerVars, sessVars, connVars, ifVars, srvVars, probeVars,
                   traceroute_thread, spVars, escVars, wLocals>>

\* the wrapper of _run_speed_test: SpeedTest.run, then the thread ends
SpeedTestRun(i, ok) ==
    /\ sp_threads[i] = "run"
    /\ speed_test' = IF ok /\ speed_test # NoSpeedTest
                     THEN [speed_test EXCEPT !.results = "ok"] ELSE speed_test
    /\ sp_threads' = CollectRunners([sp_threads EXCEPT ![i] = "dead"], speed_test_thread)
    /\ UNCHANGED <<rttVars, auxVars, callerVars, sessVars, connVars, ifVars, srvVars, probeVars, trVars,
                   speed_test_thread, escVars, wLocals>>

\* ---- the system ---------------------------------------------------------

Caller ==
    \/ \E o \in StartOutcomes : Start(o)
    \/ \E b \in BOOLEAN : Stop(b)
    \/ StopJoined
    \/ \E srv \in ExtServers : SetIcmpExternalTestServer(srv)
    \/ \E srv \in Cs2Servers : SetIcmpCs2TestServer(srv)

\* the control thread outside the reactions to changes
WatchdogSession(t) ==
    \/ W_begin(t) \/ W_wait_if(t) \/ W_early_join(t) \/ W_init(t) \/ W_init2(t)
    \/ W_poll(t)
    \/ W_cu1(t) \/ W_cu2(t) \/ W_cu_join_gw(t) \/ W_cu_join_ext(t) \/ W_cu_join_cs2(t)
    \/ W_cu_join_if(t) \/ W_cu_firewall(t) \/ W_cu_logging(t)

WatchdogEscalation(t) ==
    \/ W_esc_wait(t) \/ W_esc_check(t) \/ W_esc_short_wait(t) \/ W_esc_long(t)
    \/ W_esc_long_wait(t) \/ W_esc_tr_wait(t)

WatchdogInterface(t) ==
    W_chk_if(t) \/ W_if_clear(t) \/ W_if_join(t) \/ W_if_wait_tr(t)

WatchdogExternal(t) ==
    W_chk_ext(t) \/ W_ext_join(t) \/ W_ext_wait_tr(t)

WatchdogCs2(t) ==
    W_chk_cs2(t) \/ W_cs2_clear(t) \/ W_cs2_join(t) \/ W_cs2_wait_tr(t)

Watchdog(t) ==
    \/ WatchdogSession(t) \/ WatchdogEscalation(t)
    \/ WatchdogInterface(t) \/ WatchdogExternal(t) \/ WatchdogCs2(t)

Probe(s, i) ==
    \/ \E resolved \in BOOLEAN : ProbeRun(s, i, resolved)
    \/ \E outcome \in {"reply", "timeout", "error"} : ProbeIteration(s, i, outcome)
    \/ ProbeHandlerWakes(s, i)
    \/ ProbeRestart(s, i)

Monitor(i) ==
    \E query \in Interfaces \cup {NoInterface}, stats \in LinkStats \cup {"fail"} :
        MonitorIteration(i, query, stats)

Runner(i) ==
    \/ \E ok \in BOOLEAN : TracerouteRun(i, ok)
    \/ \E ok \in BOOLEAN : SpeedTestRun(i, ok)

\* The whole system, under every environment.
Next ==
    \/ Caller
    \/ \E t \in Sessions : Watchdog(t)
    \/ \E s \in Slots, i \in Insts : Probe(s, i)
    \/ \E i \in 1..MaxRunners : Monitor(i)
    \/ \E i \in Runners : Runner(i)

Spec == Init /\ [][Next]_vars

\* ---- the system under restricted environments ---------------------------
\* Each specification below takes its steps from Next and restricts what the
\* caller and the network do, so every behaviour of it is a behaviour of Spec.

\* a probe whose target resolves and answers
HealthyProbe(s) ==
    \E i \in Insts : ProbeRun(s, i, TRUE) \/ ProbeIteration(s, i, "reply")

\* the external probe on a link that answers or times out
LossyExternalProbe ==
    \E i \in Insts :
        \/ ProbeRun("ext", i, TRUE)
        \/ \E outcome \in {"reply", "timeout"} : ProbeIteration("ext", i, outcome)

\* a monitor that finds the same interface, up, at its first query
StableMonitor == \E i \in 1..MaxRunners : MonitorIteration(i, IfA, "up")

\* a caller that starts one session
StartOnce == NextSession = 1 /\ Start("ok")

\* Sessions: the caller starts (with every outcome of start()) and stops
\* sessions, the external link answers or times out.
NextLifecycle ==
    \/ \E o \in StartOutcomes : Start(o)
    \/ \E b \in BOOLEAN : Stop(b)
    \/ StopJoined
    \/ \E t \in Sessions : WatchdogSession(t) \/ WatchdogEscalation(t)
    \/ LossyExternalProbe
    \/ HealthyProbe("gw")
    \/ StableMonitor
    \/ \E i \in Runners : Runner(i)

SpecLifecycle == Init /\ [][NextLifecycle]_vars

\* Connectivity: one session; the external probe answers, times out, fails to
\* resolve or fails; the loss threshold is any value up to MaxThreshold.
InitConnectivity == \E n \in 1..MaxThreshold : InitWith(n)

NextConnectivity ==
    \/ StartOnce
    \/ Stop(FALSE)
    \/ \E t \in Sessions : WatchdogSession(t) \/ WatchdogEscalation(t)
    \/ \E i \in Insts : Probe("ext", i)
    \/ HealthyProbe("gw")
    \/ StableMonitor
    \/ \E i \in Runners : Runner(i)

SpecConnectivity == InitConnectivity /\ [][NextConnectivity]_vars

\* every thread that can take a step eventually takes one
ThreadFairness ==
    /\ WF_vars(\E t \in Sessions : WatchdogSession(t) \/ WatchdogEscalation(t))
    /\ WF_vars(\E i \in Insts : Probe("ext", i))
    /\ WF_vars(HealthyProbe("gw"))
    /\ WF_vars(StableMonitor)
    /\ WF_vars(\E i \in Runners : Runner(i))

\* a test that is run again and again eventually succeeds
TestsEventuallySucceed ==
    /\ SF_vars(\E i \in Runners : TracerouteRun(i, TRUE))
    /\ SF_vars(\E i \in Runners : SpeedTestRun(i, TRUE))

FairSpecConnectivity == SpecConnectivity /\ ThreadFairness /\ TestsEventuallySucceed

\* Probe slots: one session; the caller changes the external target; the
\* external probe answers or fails; every test succeeds.
NextSlots ==
    \/ StartOnce
    \/ Stop(FALSE)
    \/ SetIcmpExternalTestServer("e2")
    \/ \E t \in Sessions : WatchdogSession(t) \/ WatchdogEscalation(t) \/ WatchdogExternal(t)
    \/ \E i \in Insts :
          \/ ProbeRun("ext", i, TRUE)
          \/ \E outcome \in {"reply", "error"} : ProbeIteration("ext", i, outcome)
          \/ ProbeHandlerWakes("ext", i)
          \/ ProbeRestart("ext", i)
    \/ HealthyProbe("gw")
    \/ StableMonitor
    \/ \E i \in Runners : TracerouteRun(i, TRUE) \/ SpeedTestRun(i, TRUE)

SpecSlots == Init /\ [][NextSlots]_vars

\* Tests: one session; the caller changes both targets, the interface changes,
\* the external link is lost at most once; tests succeed or fail.
NextTests ==
    \/ StartOnce
    \/ Stop(FALSE)
    \/ SetIcmpExternalTestServer("e2")
    \/ SetIcmpCs2TestServer("c1")
    \/ \E t \in Sessions : Watchdog(t)
    \/ \E i \in Insts :
          \/ ProbeRun("ext", i, TRUE)
          \/ \E outcome \in {"reply", "timeout"} :
                total_interruptions = 0 /\ ProbeIteration("ext", i, outcome)
    \/ HealthyProbe("gw")
    \/ HealthyProbe("cs2")
    \/ \E i \in 1..MaxRunners, query \in Interfaces : MonitorIteration(i, query, "up")
    \/ \E i \in Runners : Runner(i)

SpecTests == Init /\ [][NextTests]_vars

\* ---- the accumulator on its own: any sequence of update calls ------------

\* one call of RTTData.update on the accumulator
RTTDataUpdate(latency) ==
    /\ Len(rtt_calls) < MaxUpdates
    /\ rtt_data' = Update(rtt_data, latency)
    /\ rtt_calls' = Append(rtt_calls, latency)
    /\ UNCHANGED <<auxVars, callerVars, sessVars, connVars, ifVars, srvVars, probeVars,
                   trVars, spVars, escVars, wLocals>>

NextRTT == \E latency \in LatencyInputs : RTTDataUpdate(latency)

SpecRTT == Init /\ [][NextRTT]_vars

\* ---- a probe's update path: ICMPTest._update ------------------------------

\* what the update callback is handed: the accumulator and the lost flag
OnUpdateArguments(data, current_rtt) == [rtt_data |-> data, lost |-> IsNone(current_rtt)]

\* an _update that calls back before it records the sample
ICMPTestUpdateCallsBackFirst(current_rtt) ==
    /\ Len(rtt_calls) < MaxUpdates
    /\ cb_seen' = Append(cb_seen, OnUpdateArguments(rtt_data, current_rtt))
    /\ rtt_data' = Update(rtt_data, current_rtt)
    /\ rtt_calls' = Append(rtt_calls, current_rtt)
    /\ UNCHANGED <<mainVars, hop_list, format_lines, diagnostics_dir, started,
                   clock, utc_offset, exported>>

\* ICMPTest._update(current_rtt): record the sample, then call back
ICMPTestUpdate(current_rtt) ==
    /\ Len(rtt_calls) < MaxUpdates
    /\ LET updated == Update(rtt_data, current_rtt)
       IN /\ rtt_data' = updated
          /\ cb_seen' = Append(cb_seen, OnUpdateArguments(updated, current_rtt))
    /\ rtt_calls' = Append(rtt_calls, current_rtt)
    /\ UNCHANGED <<mainVars, hop_list, format_lines, diagnostics_dir, started,
                   clock, utc_offset, exported>>

NextProbeUpdate == \E current_rtt \in LatencyInputs : ICMPTestUpdate(current_rtt)

SpecProbeUpdate == Init /\ [][NextProbeUpdate]_vars

\* ---- a traceroute result and its formatting -----------------------------

\* icmplib.traceroute reports the next hop that answered, farther than the last
TracerouteHop(distance) ==
    /\ format_lines = <<>>
    /\ hop_list # <<>> => distance > hop_list[Len(hop_list)]
    /\ hop_list' = Append(hop_list, distance)
    /\ UNCHANGED <<mainVars, rttVars, cb_seen, format_lines, diagnostics_dir, started,
                   clock, utc_offset, exported>>

\* Traceroute.format() on the result
TracerouteFormat ==
    /\ format_lines = <<>>
    /\ format_lines' = Format(hop_list)
    /\ UNCHANGED <<mainVars, rttVars, cb_seen, hop_list, diagnostics_dir, started,
                   clock, utc_offset, exported>>

NextFormat ==
    \/ \E distance \in 1..MaxDistance : TracerouteHop(distance)
    \/ TracerouteFormat

SpecFormat == Init /\ [][NextFormat]_vars

\* ---- session directories: allocation, deletion, history ------------------

\* start() at a reading of the wall clock: time does not go back, the zone
\* leaves daylight saving time at most once
StartSession(instant, offset) ==
    /\ Len(started) < MaxStarts
    /\ instant >= clock /\ offset <= utc_offset
    /\ clock' = instant /\ utc_offset' = offset
    /\ LET current_diagnostics_dir ==
               AllocateDirectory(Timestamp(instant, offset), diagnostics_dir)
       IN /\ diagnostics_dir' = diagnostics_dir \cup {current_diagnostics_dir}
          /\ started' = Append(started, current_diagnostics_dir)
    /\ UNCHANGED <<mainVars, rttVars, cb_seen, hop_list, format_lines, exported>>

\* the front end deletes a session directory of the history
DeleteDiagnostics(name) ==
    /\ name \in diagnostics_dir
    /\ diagnostics_dir' = diagnostics_dir \ {name}
    /\ UNCHANGED <<mainVars, rttVars, cb_seen, hop_list, format_lines, started,
                   clock, utc_offset, exported>>

NextHistory ==
    \/ \E instant \in 0..MaxClock, offset \in Offsets : StartSession(instant, offset)
    \/ \E name \in diagnostics_dir : DeleteDiagnostics(name)

SpecHistory == Init /\ [][NextHistory]_vars

\* ---- the front end: MainWindow ---------------------------------------------

sessButDirs == <<running, watchdog_thread, wpc, firewall, stop_diagnostics_logging,
                 logging_active, cb_stops>>
auxButExported == <<cb_seen, hop_list, format_lines, diagnostics_dir, started, clock,
                    utc_offset>>

\* MainWindow.set_external_server(server)
MainWindowSetExternalServer(server) ==
    /\ callerpc = "idle"
    /\ IF RunningProperty
       THEN UNCHANGED vars
       ELSE SetIcmpExternalTestServer(server)

\* MainWindow.export_diagnostics of session directory t; saved: the user
\* chose a file and the archive was written
MainWindowExportDiagnostics(t, saved) ==
    /\ callerpc = "idle"
    /\ t \in dirs
    /\ IF RunningProperty \/ ~saved
       THEN UNCHANGED vars
       ELSE /\ exported' = exported \cup {t}
            /\ UNCHANGED <<mainVars, rttVars, auxButExported>>

\* MainWindow.delete_diagnostics of session directory t; confirmed: the user
\* answered yes and the removal succeeded
MainWindowDeleteDiagnostics(t, confirmed) ==
    /\ callerpc = "idle"
    /\ t \in dirs
    /\ IF RunningProperty \/ ~confirmed
       THEN UNCHANGED vars
       ELSE /\ dirs' = dirs \ {t}
            /\ UNCHANGED <<rttVars, auxVars, callerVars, sessButDirs, connVars, ifVars,
                           srvVars, probeVars, trVars, spVars, escVars, wLocals>>

\* MainWindow.delete_all_diagnostics
MainWindowDeleteAllDiagnostics(confirmed) ==
    /\ callerpc = "idle"
    /\ IF RunningProperty \/ ~confirmed
       THEN UNCHANGED vars
       ELSE /\ dirs' = {}
            /\ UNCHANGED <<rttVars, auxVars, callerVars, sessButDirs, connVars, ifVars,
                           srvVars, probeVars, trVars, spVars, escVars, wLocals>>

\* Front end: one session on a healthy link; the user changes the external
\* target and exports and deletes session directories at any time.
NextFrontEnd ==
    \/ StartOnce
    \/ Stop(FALSE)
    \/ MainWindowSetExternalServer("e2")
    \/ \E t \in Sessions, saved \in BOOLEAN : MainWindowExportDiagnostics(t, saved)
    \/ \E t \in Sessions, confirmed \in BOOLEAN : MainWindowDeleteDiagnostics(t, confirmed)
    \/ \E confirmed \in BOOLEAN : MainWindowDeleteAllDiagnostics(confirmed)
    \/ \E t \in Sessions : WatchdogSession(t) \/ WatchdogExternal(t)
    \/ HealthyProbe("gw")
    \/ HealthyProbe("ext")
    \/ StableMonitor
    \/ \E i \in Runners : TracerouteRun(i, TRUE)

SpecFrontEnd == Init /\ [][NextFrontEnd]_vars

\* Targets: one session; the caller sets the external target, possibly to the
\* empty string, while the watchdog is idle; the link is healthy.
NextTargets ==
    \/ \E srv \in ExtServers :
          (\A t \in Sessions : ~WatchdogAlive(t)) /\ SetIcmpExternalTestServer(srv)
    \/ StartOnce
    \/ Stop(FALSE)
    \/ \E t \in Sessions : WatchdogSession(t) \/ WatchdogExternal(t)
    \/ HealthyProbe("gw")
    \/ HealthyProbe("ext")
    \/ StableMonitor
    \/ \E i \in Runners, ok \in BOOLEAN : TracerouteRun(i, ok)

SpecTargets == Init /\ [][NextTargets]_vars

\* Secondary target: one session; the caller sets and clears the secondary
\* target at any time; the link is healthy and every traceroute succeeds.
NextSecondary ==
    \/ \E srv \in Cs2Servers : SetIcmpCs2TestServer(srv)
    \/ StartOnce
    \/ Stop(FALSE)
    \/ \E t \in Sessions : WatchdogSession(t) \/ WatchdogCs2(t)
    \/ HealthyProbe("gw")
    \/ HealthyProbe("ext")
    \/ HealthyProbe("cs2")
    \/ StableMonitor
    \/ \E i \in Runners : TracerouteRun(i, TRUE)

SpecSecondary == Init /\ [][NextSecondary]_vars

\* the snapshots a query can return: IfA, and IfA with one field changed
Snapshots ==
    {IfA, IfB, [IfA EXCEPT !.id = 2], [IfA EXCEPT !.name = 2],
     [IfA EXCEPT !.mac = 2], [IfA EXCEPT !.ipv4 = 2]}

\* Monitor: one session on a healthy link; the interface query returns any
\* snapshot or fails, the link is up or down or its query fails.
NextMonitor ==
    \/ StartOnce
    \/ Stop(FALSE)
    \/ \E t \in Sessions : WatchdogSession(t) \/ WatchdogInterface(t)
    \/ HealthyProbe("gw")
    \/ HealthyProbe("ext")
    \/ \E i \in 1..MaxRunners, query \in Snapshots \cup {NoInterface},
          stats \in LinkStats \cup {"fail"} : MonitorIteration(i, query, stats)
    \/ \E i \in Runners : TracerouteRun(i, TRUE)

SpecMonitor == Init /\ [][NextMonitor]_vars

\* Interfaces: one session with at most one interruption; the monitor finds
\* either interface or none, with the link up or down or its state not
\* readable; every test succeeds.
NextInterfaces ==
    \/ StartOnce
    \/ Stop(FALSE)
    \/ \E t \in Sessions :
          WatchdogSession(t) \/ WatchdogEscalation(t) \/ WatchdogInterface(t)
    \/ \E i \in Insts :
          \/ ProbeRun("ext", i, TRUE)
          \/ \E outcome \in {"reply", "timeout"} :
                total_interruptions = 0 /\ ProbeIteration("ext", i, outcome)
    \/ HealthyProbe("gw")
    \/ \E i \in 1..MaxRunners, query \in Interfaces \cup {NoInterface},
          stats \in LinkStats \cup {"fail"} : MonitorIteration(i, query, stats)
    \/ \E i \in Runners : TracerouteRun(i, TRUE) \/ SpeedTestRun(i, TRUE)

SpecInterfaces == Init /\ [][NextInterfaces]_vars

\* ---- properties ---------------------------------------------------------

AliveWatchdogs == {t \in Sessions : WatchdogAlive(t)}

\* the update callback of the external probe runs, on a reply or on a timeout
ExternalUpdate(lost) ==
    \E i \in Insts :
        /\ probes["ext"][i].pc = "loop" /\ probes["ext"][i].running
        /\ ProbeIteration("ext", i, IF lost THEN "timeout" ELSE "reply")

\* the error handler of the external probe runs
ExternalError ==
    \E i \in Insts :
        \/ probes["ext"][i].pc = "loop" /\ probes["ext"][i].running
           /\ ProbeIteration("ext", i, "error")
        \/ ProbeRun("ext", i, FALSE)

EscalationBody == {"esc_short_wait", "esc_long", "esc_long_wait", "esc_tr_wait"}

\* C1: start() while a control thread is alive creates no second control
\* thread, so at most one control thread is alive at any time.
C1_NoSecondControlThread == Cardinality(AliveWatchdogs) <= 1

\* C2: stop(), blocking or not, called while no control thread is alive
\* leaves every state variable unchanged.
C2_StopWhileIdleIsNoOp ==
    [][(AliveWatchdogs = {} /\ \E b \in BOOLEAN : Stop(b)) => UNCHANGED vars]_vars

\* C3: once the state is interrupted and a reply of the external probe has
\* restored connectivity, the state flips back to stable (unless connectivity
\* is lost again or the session is stopped first).
C3_ReplyFlipsBackToStable ==
    (running /\ active_interruption /\ internet_connectivity)
        ~> (~running \/ ~active_interruption \/ ~internet_connectivity)

\* C4: after the external probe's update callback, a reply leaves connectivity
\* connected and the counter 0; a timeout leaves the counter one higher and
\* connectivity lost if the counter has reached the threshold, else as it was.
C4_UpdateCallback ==
    [][/\ ExternalUpdate(FALSE) =>
            /\ internet_connectivity'
            /\ icmp_external_test_seq_loss' = 0
       /\ ExternalUpdate(TRUE) =>
            /\ icmp_external_test_seq_loss' = icmp_external_test_seq_loss + 1
            /\ internet_connectivity' =
                   IF icmp_external_test_seq_loss' >= icmp_max_seq_loss
                   THEN FALSE ELSE internet_connectivity]_vars

\* a timeout below the threshold was counted and connectivity was left as it was
C4_Witness ==
    /\ icmp_external_test_seq_loss > 0
    /\ icmp_external_test_seq_loss < icmp_max_seq_loss
    /\ internet_connectivity
    /\ \E i \in Insts : probes["ext"][i].pc = "loop" /\ probes["ext"][i].running

\* C5 (as stated): connectivity goes from connected to lost only in a step of
\* the update callback in which the counter reaches the threshold.
C5_LostOnlyByThreshold ==
    [][(internet_connectivity /\ ~internet_connectivity') =>
           (ExternalUpdate(TRUE) /\ icmp_external_test_seq_loss' >= icmp_max_seq_loss)]_vars

\* C5 (amended): connectivity goes from connected to lost only in a step of
\* the update callback in which the counter reaches the threshold, or in a
\* step of the external probe's error handler.
C5_LostOnlyByThresholdOrError ==
    [][(internet_connectivity /\ ~internet_connectivity') =>
           \/ ExternalUpdate(TRUE) /\ icmp_external_test_seq_loss' >= icmp_max_seq_loss
           \/ ExternalError]_vars

\* connectivity is lost with the counter below the threshold: the error
\* handler of the external probe has run
C5_Witness ==
    /\ ~internet_connectivity
    /\ icmp_external_test_seq_loss < icmp_max_seq_loss
    /\ \E i \in Insts : probes["ext"][i].pc = "handler"

\* C6: the interruption counter grows by one at every stable-to-interrupted
\* transition, and changes in no other way except the reset to 0 in teardown.
C6_InterruptionCounter ==
    [][/\ (~active_interruption /\ active_interruption') =>
            total_interruptions' = total_interruptions + 1
       /\ total_interruptions' # total_interruptions =>
            \/ /\ total_interruptions' = total_interruptions + 1
               /\ ~active_interruption /\ active_interruption'
            \/ /\ total_interruptions' = 0
               /\ \E t \in Sessions : W_cu_join_if(t)]_vars

\* a second interruption of one live session has been counted
C6_Witness ==
    /\ total_interruptions >= 2
    /\ active_interruption
    /\ AliveWatchdogs # {}

\* C7: at the retry loop's check, with connectivity restored, the escalation
\* loop exits: the control thread does not enter the loop's body.
C7_LoopExitsOnRestoredConnectivity ==
    [][\A t \in Sessions :
          (At(t, "esc_check") /\ internet_connectivity) => wpc'[t] \notin EscalationBody]_vars

\* C8: the retry loop is not re-entered once the traceroute and the short
\* speed test have succeeded and no long speed test is required.
C8_LoopExitsWhenRequiredTestsSucceeded ==
    \A t \in Sessions :
        ~(/\ At(t, "esc_check")
          /\ traceroute_succeeded /\ short_speed_test_succeeded /\ ~long_speed_test)

\* C9: at most one traceroute thread and at most one speed-test thread is alive.
C9_OneTestRunInFlight ==
    /\ Cardinality({i \in Runners : tr_threads[i] = "run"}) <= 1
    /\ Cardinality({i \in Runners : sp_threads[i] = "run"}) <= 1

\* the control loop holds a traceroute request back while a run is in flight
C9_Witness ==
    /\ \E t \in Sessions : wpc[t] \in {"if_wait_tr", "ext_wait_tr", "cs2_wait_tr"}
    /\ traceroute_thread # 0
    /\ tr_threads[traceroute_thread] = "run"

\* C10: in every probe slot at most one probe thread is alive.
C10_OneProbeThreadPerSlot ==
    \A s \in Slots : Cardinality({i \in Insts : ProbeAlive(probes, s, i)}) <= 1

EscalationPcs == {"esc_wait", "esc_check"} \cup EscalationBody

\* some thread started for a session is alive
SessionThreadAlive ==
    \/ \E s \in Slots, i \in Insts : ProbeAlive(probes, s, i)
    \/ \E i \in 1..MaxRunners : MonitorAlive(monitors, i)
    \/ \E i \in Runners : RunnerAlive(tr_threads, i) \/ RunnerAlive(sp_threads, i)

\* C11: once teardown has completed and the completion callback has fired
\* (the control thread has ended and no other is alive), no probe, monitor,
\* traceroute or speed-test thread is alive.
C11_NoThreadAfterTeardown ==
    ((\E t \in Sessions : wpc[t] = "dead") /\ AliveWatchdogs = {}) => ~SessionThreadAlive

\* C12: after a stop request on a running session the control thread
\* eventually ends (the loop exits, teardown completes, the callback fires).
C12_StopEventuallyCompletes ==
    \A t \in Sessions : (WatchdogAlive(t) /\ ~running) ~> ~WatchdogAlive(t)

\* C13: with a stop requested, the escalation loop exits at its next check,
\* and for as long as the control thread is still inside the escalation run
\* no teardown action is performed: the probe slots are not cleared, the
\* firewall allowance and the session logging are not removed, the completion
\* callback does not fire.
C13_EscalationReturnsBeforeTeardown ==
    [][\A t \in Sessions :
          /\ (At(t, "esc_check") /\ ~running) => wpc'[t] \notin EscalationBody
          /\ (wpc[t] \in EscalationPcs /\ ~running) =>
                /\ firewall => firewall'
                /\ t \in logging_active => t \in logging_active'
                /\ cb_stops' = cb_stops
                /\ watchdog_thread = t => watchdog_thread' = t
                /\ \A s \in Slots : icmp_test[s] # 0 => icmp_test'[s] # 0]_vars

\* C14: a control thread that finds no external target configured at the
\* probe-start phase has started no ICMP probe.
C14_NoProbeStartedWithoutTarget ==
    \A t \in Sessions :
        (At(t, "init2") /\ icmp_external_test_server = "") => \A s \in Slots : icmp_test[s] = 0

\* C15: set_icmp_external_test_server with the empty string leaves the
\* configured target and the target-changed flag unchanged.
C15_EmptyTargetRejected ==
    [][SetIcmpExternalTestServer("") =>
           UNCHANGED <<icmp_external_test_server, icmp_external_test_server_changed>>]_vars

\* C16: a start() whose entry actions fail launches no control thread and
\* leaves the running property false, and a later start() is not rejected.
C16_FailedStartLaunchesNothing ==
    [][\A o \in StartOutcomes \ {"ok"} :
          (~StartRejected /\ Start(o)) =>
              /\ wpc' = wpc
              /\ watchdog_thread' = watchdog_thread
              /\ ~RunningProperty'
              /\ ~StartRejected']_vars

\* the firewall allowance exists although no control thread was ever launched:
\* a start() failed after creating it
C16_Witness ==
    /\ firewall
    /\ \A t \in Sessions : wpc[t] = "none"

\* ---- RTTData --------------------------------------------------------------

\* the successful samples among the update calls made so far
Replies(calls) == {i \in DOMAIN calls : ~IsNone(calls[i])}

\* the step is one update call with a reply, made after an earlier reply
LaterReply ==
    /\ rtt_calls' = Append(rtt_calls, rtt_calls'[Len(rtt_calls')])
    /\ ~IsNone(rtt_calls'[Len(rtt_calls')])
    /\ rtt_data.initial_data

\* C17: after every sequence of update calls received <= sent, sent is the
\* number of calls, received the number of calls with a reply, and loss is 0
\* with nothing sent and 1 - received/sent otherwise.
C17_CountersAndLoss ==
    /\ rtt_data.received <= rtt_data.sent
    /\ rtt_data.sent = Len(rtt_calls)
    /\ rtt_data.received = Cardinality(Replies(rtt_calls))
    /\ ~IsNone(Loss(rtt_data))
    /\ IF rtt_data.sent = 0
       THEN Loss(rtt_data).n = 0
       ELSE Loss(rtt_data).n * rtt_data.sent =
                (rtt_data.sent - rtt_data.received) * Loss(rtt_data).d

\* replies and timeouts interspersed: a timeout before and after a reply
C17_Witness ==
    /\ Len(rtt_calls) >= 3
    /\ \E i, j, k \in DOMAIN rtt_calls :
          i < j /\ j < k /\ IsNone(rtt_calls[i]) /\ ~IsNone(rtt_calls[j])
          /\ IsNone(rtt_calls[k])
    /\ rtt_data.received < rtt_data.sent

\* C18: until the first reply last, average, minimum, maximum and jitter are
\* undefined; the first reply v, after any number of timeouts, sets
\* last = average = minimum = maximum = v and jitter = 0.
C18_FirstSample ==
    /\ Replies(rtt_calls) = {} =>
          /\ IsNone(rtt_data.last) /\ IsNone(rtt_data.average)
          /\ IsNone(rtt_data.minimum) /\ IsNone(rtt_data.maximum)
          /\ IsNone(rtt_data.jitter)
    /\ (rtt_calls # <<>> /\ Replies(rtt_calls) = {Len(rtt_calls)}) =>
          LET v == rtt_calls[Len(rtt_calls)]
          IN /\ RatEq(rtt_data.last, v) /\ RatEq(rtt_data.average, v)
             /\ RatEq(rtt_data.minimum, v) /\ RatEq(rtt_data.maximum, v)
             /\ RatEq(rtt_data.jitter, Float(0))

\* the first reply arrived after two timeouts
C18_Witness ==
    /\ Len(rtt_calls) = 3
    /\ Replies(rtt_calls) = {3}
    /\ rtt_data.initial_data

\* C19: a reply v that is not the first one makes the average
\* (sent_before * average_before + v) / (sent_before + 1), sent_before being
\* the sent count before the call; for the replies 10, 20, 10 the averages
\* are 10, 15 and 40/3.
C19_RunningAverage ==
    [][/\ LaterReply =>
             RatEq(rtt_data'.average,
                   RatDiv(RatAdd(RatMul(rtt_data.sent, rtt_data.average),
                                 rtt_calls'[Len(rtt_calls')]),
                          rtt_data.sent + 1))
       /\ rtt_calls' = <<Float(10)>> => RatEq(rtt_data'.average, Float(10))
       /\ rtt_calls' = <<Float(10), Float(20)>> => RatEq(rtt_data'.average, Float(15))
       /\ rtt_calls' = <<Float(10), Float(20), Float(10)>> =>
             RatEq(rtt_data'.average, [n |-> 40, d |-> 3])]_vars

\* C20: a reply v that is not the first one makes the jitter
\* (sent_before * jitter_before + |v - last_before|) / (sent_before + 1), and
\* last becomes v; for the replies 10, 20, 10 the jitter values are 0, 5 and
\* 20/3.
C20_RunningJitter ==
    [][/\ LaterReply =>
             /\ RatEq(rtt_data'.jitter,
                      RatDiv(RatAdd(RatMul(rtt_data.sent, rtt_data.jitter),
                                    RatAbs(RatSub(rtt_calls'[Len(rtt_calls')],
                                                  rtt_data.last))),
                             rtt_data.sent + 1))
             /\ RatEq(rtt_data'.last, rtt_calls'[Len(rtt_calls')])
       /\ rtt_calls' = <<Float(10)>> => RatEq(rtt_data'.jitter, Float(0))
       /\ rtt_calls' = <<Float(10), Float(20)>> => RatEq(rtt_data'.jitter, Float(5))
       /\ rtt_calls' = <<Float(10), Float(20), Float(10)>> =>
             RatEq(rtt_data'.jitter, [n |-> 20, d |-> 3])]_vars

\* ---- the interface monitor ------------------------------------------------

\* the step is an iteration of monitor i that queried snapshot query and link
\* state stats with success while a snapshot was on record
MonitorCompares(i, query, stats) ==
    /\ MonitorIteration(i, query, stats)
    /\ interface_update_running
    /\ interface # NoInterface

\* C21: an iteration that compares the recorded snapshot with a newly queried
\* one raises the changed flag and replaces the recorded snapshot if and only
\* if one of the five fields differs; an identical snapshot leaves both alone.
C21_ChangedIffFieldDiffers ==
    [][\A i \in 1..MaxRunners, query \in Snapshots, stats \in LinkStats :
          MonitorCompares(i, query, stats) =>
              IF \E f \in {"id", "name", "mac", "ipv4", "gw"} : interface[f] # query[f]
              THEN interface_changed' /\ interface' = query
              ELSE interface_changed' = interface_changed /\ interface' = interface]_vars

\* a snapshot that differs from IfA in one field only was recorded as a change
C21_Witness ==
    /\ interface_changed
    /\ interface \in Snapshots \ {IfA, IfB}

\* ---- Traceroute.format ------------------------------------------------------

\* the lines of the formatted result below the two header lines
FormatRows == SubSeq(format_lines, Len(HeaderLines) + 1, Len(format_lines))

\* C22: the formatted result has exactly one row per distance from 1 to the
\* largest distance in the hop list, in increasing order: the hop's row for a
\* distance in the list, a 100%-loss placeholder row for a distance missing.
C22_OneRowPerDistance ==
    format_lines # <<>> =>
        LET present == {hop_list[k] : k \in DOMAIN hop_list}
            max == IF hop_list = <<>> THEN 0 ELSE hop_list[Len(hop_list)]
        IN /\ Len(FormatRows) = max
           /\ \A i \in 1..max :
                 /\ FormatRows[i].distance = i
                 /\ FormatRows[i].kind = IF i \in present THEN "hop" ELSE "gap"

\* hops at distances 1 and 3 were formatted
C22_Witness ==
    /\ hop_list = <<1, 3>>
    /\ format_lines # <<>>

\* ---- ICMPTest._update -----------------------------------------------------

\* C26: the k-th update callback of a probe is handed statistics that include
\* the k-th sample: the sent count it sees is k, and after a reply the last
\* latency it sees is that reply.
C26_CallbackSeesRecordedSample ==
    /\ Len(cb_seen) = Len(rtt_calls)
    /\ \A k \in DOMAIN cb_seen :
          /\ cb_seen[k].rtt_data.sent = k
          /\ cb_seen[k].lost = IsNone(rtt_calls[k])
          /\ ~cb_seen[k].lost => RatEq(cb_seen[k].rtt_data.last, rtt_calls[k])

\* three callbacks were made, for a reply, a timeout and another reply
C26_Witness ==
    /\ Len(cb_seen) >= 3
    /\ ~cb_seen[1].lost /\ cb_seen[2].lost /\ ~cb_seen[3].lost

\* ---- session directories --------------------------------------------------

\* the step is a start(); its session directory is the last name started
SessionStarted == Len(started') = Len(started) + 1

\* the position of a name in the history, the index of its latest start
HistoryIndex(name) ==
    CHOOSE k \in 1..Cardinality(diagnostics_dir) :
        GetDiagnosticsHistory(diagnostics_dir)[k] = name
LastStartOf(name) ==
    CHOOSE k \in DOMAIN started :
        started[k] = name /\ \A j \in DOMAIN started : started[j] = name => j <= k

\* C23: the session directory a start() allocates did not exist when chosen:
\* it is the bare timestamp if that is free, otherwise the timestamp with the
\* smallest free suffix counting up from 2.
C23_FreshSessionDirectory ==
    [][SessionStarted =>
          LET name == started'[Len(started')]
              timestamp == <<clock' + utc_offset', utc_offset'>>
          IN /\ name \notin diagnostics_dir
             /\ diagnostics_dir' = diagnostics_dir \cup {name}
             /\ IF timestamp \notin diagnostics_dir
                THEN name = timestamp
                ELSE \E i \in 2..(MaxStarts + 1) :
                        /\ name = timestamp \o <<-1, i>>
                        /\ \A j \in 2..(i - 1) :
                              timestamp \o <<-1, j>> \in diagnostics_dir]_vars

\* a third session in the same second got the suffix 3
C23_Witness ==
    /\ Len(started) = 3
    /\ started[3] = started[1] \o <<-1, 3>>
    /\ started[2] \in diagnostics_dir

\* C24: the history has one entry per session directory, and of two session
\* directories the one started later stands earlier in it; the last
\* diagnostics are its first entry, or none without history.
C24_HistoryNewestFirst ==
    LET history == GetDiagnosticsHistory(diagnostics_dir)
    IN /\ Len(history) = Cardinality(diagnostics_dir)
       /\ {history[k] : k \in DOMAIN history} = diagnostics_dir
       /\ \A a, b \in diagnostics_dir :
             LastStartOf(a) < LastStartOf(b) => HistoryIndex(b) < HistoryIndex(a)
       /\ GetLastDiagnostics(diagnostics_dir) =
             IF diagnostics_dir = {} THEN <<>> ELSE history[1]

\* ---- the front end --------------------------------------------------------

\* C25: while a session is active, from the start of its control thread to
\* the end of its teardown, no session directory is deleted or exported and
\* the external target does not change.
C25_FrontEndRefusesWhileActive ==
    [][AliveWatchdogs # {} =>
          /\ dirs \subseteq dirs'
          /\ exported' = exported
          /\ icmp_external_test_server' = icmp_external_test_server]_vars

\* ---- the escalation engine's tests ------------------------------------------

\* C27: the speed test the escalation engine starts as the long one runs with
\* the long preset.
C27_LongTestUsesLongPreset ==
    \A t \in Sessions : At(t, "esc_long_wait") => speed_test.tests = "LONG_TESTS"

\* a step in which a new runner thread begins
TracerouteStarted == \E i \in 1..MaxRunners : tr_threads[i] # "run" /\ tr_threads'[i] = "run"

SpeedTestStarted == \E i \in 1..MaxRunners : sp_threads[i] # "run" /\ sp_threads'[i] = "run"

\* C28: in an escalation run the long speed test is started only after a short
\* speed test of the run succeeded in less than the minimum duration, and a
\* test that has succeeded in the run is not started again in it.
C28_TestsStartedWhenDue ==
    [][\A t \in Sessions :
          /\ long_speed_test => short_speed_test_succeeded
          /\ (At(t, "esc_long") /\ SpeedTestStarted) =>
                short_speed_test_succeeded /\ long_speed_test /\ ~long_speed_test_succeeded
          /\ (wpc[t] \in EscalationPcs /\ traceroute_succeeded) => ~TracerouteStarted
          /\ (wpc[t] \in EscalationPcs /\ short_speed_test_succeeded /\ SpeedTestStarted) =>
                At(t, "esc_long")]_vars

\* a long speed test is in flight after a quick short one, the traceroute of
\* the run having succeeded in an earlier pass
C28_Witness ==
    \E t \in Sessions :
        /\ At(t, "esc_long_wait")
        /\ short_speed_test_succeeded /\ long_speed_test /\ traceroute_succeeded

\* ---- the interface monitor ---------------------------------------------------

\* the iteration of monitor i reads the link statistics: an interface object
\* is at hand and the statistics query answers
StatsRead(i, query, stats) ==
    /\ (query # NoInterface \/ (interface # NoInterface /\ monitors[i].local # NoInterface))
    /\ stats # "fail"

\* C29: the monitor ends by itself exactly in the iteration whose statistics
\* query answers with the link up; while a query fails or the link is down it
\* stays alive, until it is stopped; and no monitor is alive again before the
\* control thread calls _start_interface_update.
C29_MonitorEndsWhenLinkUp ==
    [][/\ \A i \in 1..MaxRunners, query \in Interfaces \cup {NoInterface},
             stats \in LinkStats \cup {"fail"} :
             (MonitorIteration(i, query, stats) /\ interface_update_running) =>
                IF StatsRead(i, query, stats) /\ stats = "up"
                THEN ~MonitorAlive(monitors', i) /\ ~interface_update_running'
                ELSE MonitorAlive(monitors', i) /\ interface_update_running'
       /\ ((\A i \in 1..MaxRunners : ~MonitorAlive(monitors, i))
             /\ (\E i \in 1..MaxRunners : MonitorAlive(monitors', i))) =>
             \E t \in Sessions : wpc[t] \in {"begin", "esc_wait"} /\ wpc'[t] # wpc[t]]_vars

\* the monitor started by the escalation engine is alive after the one of the
\* session's start ended on a link that was up
C29_Witness ==
    /\ \E i \in 1..MaxRunners : MonitorAlive(monitors, i)
    /\ interface_stats = "up"
    /\ \E t \in Sessions : wpc[t] \in EscalationBody

\* C30: no recorded interface change is lost: once the control loop is back at
\* its poll with the changed flag clear, the gateway probe of the running
\* session targets the gateway of the interface recorded last.
C30_NoInterfaceChangeLost ==
    \A t \in Sessions :
        (/\ At(t, "poll") /\ WatchdogAlive(t) /\ running
         /\ ~interface_changed
         /\ interface # NoInterface
         /\ icmp_test["gw"] # 0) =>
            probes["gw"][icmp_test["gw"]].host = interface.gw

\* ---- target changes during a session -------------------------------------------

\* C31: an external target set during a running session is taken up by the
\* control loop: once the loop is back at its poll with the changed flag
\* clear, the external probe of the session and the traceroute run last are
\* against the target set last.
C31_ExternalTargetTakenUp ==
    \A t \in Sessions :
        (/\ At(t, "poll") /\ WatchdogAlive(t) /\ running
         /\ ~icmp_external_test_server_changed
         /\ icmp_test["ext"] # 0) =>
            /\ probes["ext"][icmp_test["ext"]].host = icmp_external_test_server
            /\ traceroute.host = icmp_external_test_server

\* C32: no change of the secondary target is lost: once the control loop is
\* back at its poll with the changed flag clear, the secondary slot reflects
\* the target set last: no running secondary probe if it is null, otherwise a
\* probe against it and the last traceroute run against it.
C32_SecondaryTargetTakenUp ==
    \A t \in Sessions :
        (/\ At(t, "poll") /\ WatchdogAlive(t) /\ running
         /\ ~icmp_cs2_test_server_changed) =>
            IF icmp_cs2_test_server = "None"
            THEN \A i \in Insts : ~probes["cs2"][i].running
            ELSE /\ icmp_test["cs2"] # 0
                 /\ probes["cs2"][icmp_test["cs2"]].host = icmp_cs2_test_server
                 /\ traceroute.host = icmp_cs2_test_server

\* ---- the session's start and end ----------------------------------------------

\* a step in which a new probe thread begins
IcmpTestStarted ==
    \E s \in Slots, i \in Insts : probes[s][i].pc # "new" /\ probes'[s][i].pc = "new"

\* C33: while the control loop waits for the monitor's first pass no
\* traceroute and no probe is started, and once stop() was requested during
\* that wait the control loop goes on to stop the monitor and to teardown
\* only.
C33_StopDuringInterfaceWait ==
    [][\A t \in Sessions :
          At(t, "wait_if") =>
             /\ MonitorAlive(monitors, interface_update_thread) =>
                   ~TracerouteStarted /\ ~IcmpTestStarted
             /\ ~running =>
                   /\ wpc'[t] \in {"wait_if", "early_join"}
                   /\ ~TracerouteStarted /\ ~IcmpTestStarted]_vars

\* ---- a probe that fails ----------------------------------------------------------

\* the probe thread is past its loop: in its error handler
InHandler(P, s, i) == P[s][i].pc \in {"handler", "restart"}

\* C34: a probe that failed to resolve its host or hit an ICMP error is not
\* running and does not return to its loop; its error handler runs once and,
\* while the session is running, ends by putting a fresh probe against the
\* handler's target into the slot; a timeout leaves the probe in its loop.
C34_FailedProbeRestarted ==
    [][\A s \in Slots, i \in Insts :
          /\ InHandler(probes, s, i) =>
                /\ ~probes[s][i].running
                /\ probes'[s][i].pc \in {"handler", "restart", "dead", "none"}
          /\ (probes[s][i].pc \in {"new", "loop"} /\ probes'[s][i].pc = "handler") =>
                ~probes'[s][i].running
          /\ (ProbeIteration(s, i, "timeout") /\ probes[s][i].running) =>
                probes'[s][i] = probes[s][i]
          /\ (ProbeRestart(s, i) /\ running /\ AliveWatchdogs # {}) =>
                /\ icmp_test'[s] \notin {0, i}
                /\ probes'[s][icmp_test'[s]] =
                      [pc |-> "new", running |-> FALSE, host |-> probes[s][i].arg,
                       arg |-> "None"]]_vars

\* ---- what a session inherits from the one before ---------------------------------

\* C35: a session begins in the stable connectivity state with the counter
\* of consecutive timeouts at 0: so it is when its control thread, the only
\* one alive, takes its first step.
C35_SessionBeginsStable ==
    \A t \in Sessions :
        (At(t, "begin") /\ AliveWatchdogs = {t} /\ ~SessionThreadAlive) =>
            /\ internet_connectivity
            /\ icmp_external_test_seq_loss = 0
            /\ ~active_interruption

\* C36: a target set while the watchdog is idle is the one the session's
\* first external probe is started against, and its changed flag is not
\* pending in the session: the control loop arrives at its poll with the
\* flag clear and goes through no restart of the probe.
C36_IdleTargetChangeNotPending ==
    \A t \in Sessions :
        /\ (At(t, "poll") /\ running /\ icmp_test["ext"] # 0) =>
              probes["ext"][icmp_test["ext"]].host = icmp_external_test_server
        /\ wpc[t] \in {"poll", "chk_ext", "ext_join", "ext_wait_tr"} =>
              /\ ~icmp_external_test_server_changed
              /\ At(t, "poll")

\* C37: a step of one session's control thread never happens with another
\* control thread alive, and so never removes the firewall allowance or
\* stops the session logging of a session whose control thread is alive.
C37_TeardownSparesNextSession ==
    [][\A t \in Sessions :
          (WatchdogAlive(t) /\ wpc'[t] # wpc[t]) =>
              \A u \in Sessions \ {t} :
                  /\ ~WatchdogAlive(u)
                  /\ WatchdogAlive(u) =>
                        /\ firewall => firewall'
                        /\ u \in logging_active => u \in logging_active']_vars

\* C38: on whatever path the control loop is left, teardown runs to its end
\* and the completion callback has fired once for every session that ended.
C38_TeardownCompletesOnce ==
    /\ \A t \in Sessions : At(t, "cu1") ~> At(t, "dead")
    /\ [](cb_stops = Cardinality({t \in Sessions : At(t, "dead")}))

\* ---- the interruption notifications of a session -----------------------------------

\* C39: within a session the interruption-started and interruption-ended
\* notifications alternate, beginning with a started one, an ended one never
\* comes without an unmatched started one, and the k-th started one carries
\* the count k.
C39_NotificationsAlternate ==
    /\ cb_ends <= cb_starts
    /\ cb_starts <= cb_ends + 1
    /\ cb_starts > 0 => cb_total = cb_starts

\* the second interruption of a session has been notified, the first having
\* ended
C39_Witness ==
    /\ AliveWatchdogs # {}
    /\ cb_starts = 2 /\ cb_ends = 1 /\ cb_total = 2

\* ---- stopping a probe -------------------------------------------------------------

\* C40: a probe that its owner has stopped and is joining has its running
\* flag clear, whenever the stop came after the thread's start: its loop ends
\* at the next test and the join returns.
C40_StoppedProbeTerminates ==
    \A s \in Slots, i \in Insts :
        w_join = <<s, i>> => ~probes[s][i].running

====
